---- MODULE Spec2Model ----
(***************************************************************************)
(* Model of the JSON knowledge-base merge and reshaping pipeline:          *)
(*   kv_rule.py                 select_dictionary_range,                   *)
(*                              update_json_if_different                   *)
(*   kv-rag/utils/kv_termArrange.py  flatten_json, extract_terms,          *)
(*                              extract_information                        *)
(*   kv_term.py                 extract_details and its helpers            *)
(*                                                                         *)
(* Python values are tagged records, a dict is the sequence of its items   *)
(* in insertion order, and a text (the content of a file or of a str) is   *)
(* modelled by what json.loads makes of it.                                *)
(***************************************************************************)
EXTENDS Integers, Sequences, FiniteSets, TLC

VARIABLES store, pre, op, arg, res

vars == <<store, pre, op, arg, res>>

(***************************************************************************)
(* Bounds of the model.                                                    *)
(***************************************************************************)
MaxStored == 2
MaxNew == 2
MaxPages == 2
MaxDocPages == 2
MaxRules == 1
MaxHashSeed == 1
MaxAnnotations == 2

(***************************************************************************)
(* Python values.                                                          *)
(***************************************************************************)
PyNone == [t |-> "none"]
PyBool(b) == [t |-> "bool", b |-> b]
PyNum(n) == [t |-> "num", n |-> n]
PyStr(text) == [t |-> "str", text |-> text]
PyDict(items) == [t |-> "dict", items |-> items]
PyList(elems) == [t |-> "list", elems |-> elems]

\* Texts: the empty text, a text that is not JSON, the text of a JSON object
\* (its members in text order, a key may occur twice), the text of any other
\* JSON value.
EmptyText == [j |-> "empty"]
RawText(id) == [j |-> "raw", id |-> id]
ObjText(pairs) == [j |-> "obj", pairs |-> pairs]
ValText(v) == [j |-> "val", v |-> v]

Item(k, v) == [k |-> k, v |-> v]

\* Python's == on the values of the model: bool is a subclass of int, so
\* True == 1 and False == 0; everything else compares structurally.
PyEq(v, w) ==
    \/ v = w
    \/ v.t = "bool" /\ w.t = "num" /\ w.n = (IF v.b THEN 1 ELSE 0)
    \/ v.t = "num" /\ w.t = "bool" /\ v.n = (IF w.b THEN 1 ELSE 0)

(***************************************************************************)
(* dict operations on item sequences.                                      *)
(***************************************************************************)
DictKeys(m) == {m[i].k : i \in 1..Len(m)}

DictHas(m, k) == \E i \in 1..Len(m) : m[i].k = k

DictGet(m, k) == m[CHOOSE i \in 1..Len(m) : m[i].k = k].v

\* m[k] = v: an existing key keeps its position, a new key goes last.
DictSet(m, k, v) ==
    IF DictHas(m, k)
    THEN [i \in 1..Len(m) |-> IF m[i].k = k THEN Item(k, v) ELSE m[i]]
    ELSE Append(m, Item(k, v))

\* dict(pairs): later pairs overwrite earlier ones with the same key.
RECURSIVE DictOf(_)
DictOf(pairs) ==
    IF pairs = <<>> THEN <<>>
    ELSE LET n == Len(pairs)
         IN DictSet(DictOf(SubSeq(pairs, 1, n - 1)), pairs[n].k, pairs[n].v)

DistinctKeys(m) == \A i, j \in 1..Len(m) : m[i].k = m[j].k => i = j

(***************************************************************************)
(* Strings: the code points of every key the model uses.                   *)
(***************************************************************************)
Spell(k) ==
    CASE k = "1" -> <<49>>
      [] k = "2" -> <<50>>
      [] k = "10" -> <<49, 48>>
      [] k = "05" -> <<48, 53>>
      [] k = "-1" -> <<45, 49>>
      [] k = "x" -> <<120>>
      [] k = "1x" -> <<49, 120>>
      [] k = "3" -> <<51>>
      [] k = "V.1" -> <<86, 46, 49>>
      [] k = "V.2" -> <<86, 46, 50>>
      [] k = "Ab" -> <<65, 98>>
      [] k = "ab" -> <<97, 98>>
      [] k = "cd" -> <<99, 100>>
      [] k = "NONE" -> <<78, 79, 78, 69>>
      [] k = "" -> <<>>

\* Python's < on str: lexicographic on code points.
RECURSIVE SeqLess(_, _)
SeqLess(a, b) ==
    IF b = <<>> THEN FALSE
    ELSE IF a = <<>> THEN TRUE
    ELSE IF a[1] # b[1] THEN a[1] < b[1]
    ELSE SeqLess(Tail(a), Tail(b))

StrLess(a, b) == SeqLess(Spell(a), Spell(b))

\* sorted(d.items()): items are (key, value) tuples; the keys of a dict are
\* distinct, so the key decides every comparison.
RECURSIVE SortedInsert(_, _)
SortedInsert(s, it) ==
    IF s = <<>> THEN <<it>>
    ELSE IF StrLess(it.k, s[1].k) THEN <<it>> \o s
    ELSE <<s[1]>> \o SortedInsert(Tail(s), it)

RECURSIVE SortedItems(_)
SortedItems(m) ==
    IF m = <<>> THEN <<>>
    ELSE SortedInsert(SortedItems(SubSeq(m, 1, Len(m) - 1)), m[Len(m)])

(***************************************************************************)
(* json.loads / json.load and json.dumps / json.dump.                      *)
(***************************************************************************)
JsonLoads(text) ==
    CASE text.j = "obj" -> [ok |-> TRUE, v |-> PyDict(DictOf(text.pairs))]
      [] text.j = "val" -> [ok |-> TRUE, v |-> text.v]
      [] OTHER -> [ok |-> FALSE, err |-> "JSONDecodeError"]

JsonDumps(v) == IF v.t = "dict" THEN ObjText(v.items) ELSE ValText(v)

(***************************************************************************)
(* The store file of update_json_if_different.                             *)
(***************************************************************************)
Absent == [kind |-> "absent"]
FileOf(text) == [kind |-> "file", text |-> text]

\* for key, value in new_data.items(): ... existing_data[key] = value
RECURSIVE MergeLoop(_, _)
MergeLoop(existing, new) ==
    IF new = <<>> THEN existing
    ELSE LET key == new[1].k
             value == new[1].v
             next == IF DictHas(existing, key) /\ PyEq(DictGet(existing, key), value)
                     THEN existing
                     ELSE DictSet(existing, key, value)
         IN MergeLoop(next, Tail(new))

\* A load whose except branch falls back to a list, as the create branch does.
LoadExistingAsList(f) ==
    LET r == JsonLoads(f.text)
    IN IF r.ok THEN r.v ELSE PyList(<<>>)

\* A load that does not read the file.
LoadExistingEmpty(f) == PyDict(<<>>)

\* The document the function works on after the load.
LoadExisting(f) ==
    LET r == JsonLoads(f.text)
    IN IF r.ok THEN r.v ELSE PyDict(<<>>)

\* What the function leaves at the path when the file is absent.
CreatedFile == FileOf(JsonDumps(PyList(<<>>)))

\* A write of the new records alone (json.dump(results, ..)).
WrittenTextOnlyNew(existing, new) == JsonDumps(PyDict(SortedItems(new)))

\* A write without the sort.
WrittenTextUnsorted(existing, new) == JsonDumps(PyDict(existing))

\* The text the function writes at the end.
WrittenText(existing, new) == JsonDumps(PyDict(SortedItems(existing)))

\* update_json_if_different(json_file, new_data): the file it leaves, how it
\* ends and what it returns.
update_json_if_different(f, new_data) ==
    LET f1 == IF f = Absent THEN CreatedFile ELSE f
        existing == LoadExisting(f1)
    IN IF existing.t = "dict"
       THEN LET merged == MergeLoop(existing.items, new_data)
            IN [file |-> FileOf(WrittenText(merged, new_data)),
                status |-> "ok",
                ret |-> PyDict(merged)]
       ELSE IF new_data # <<>>
            \* key in existing_data / existing_data[key] = value on a non-dict
            THEN [file |-> f1, status |-> "TypeError", ret |-> PyNone]
            \* open(.., "w") has truncated the file when .items() raises
            ELSE [file |-> FileOf(EmptyText), status |-> "AttributeError",
                  ret |-> PyNone]

(***************************************************************************)
(* Inputs of the store machine.                                            *)
(***************************************************************************)
StoreKeys == {"1", "10", "2"}
StoredValues == {PyStr(RawText("a")), PyBool(TRUE)}
NewValues == {PyStr(RawText("a")), PyNum(1)}
StoredItems == {Item(k, v) : k \in StoreKeys, v \in StoredValues}
NewItems == {Item(k, v) : k \in StoreKeys, v \in NewValues}

SeqsUpTo(S, n) == UNION {[1..m -> S] : m \in 0..n}

\* The orders of at most n distinct keys of K.
KeyOrders(K, n) ==
    {ks \in SeqsUpTo(K, n) : \A i, j \in 1..Len(ks) : ks[i] = ks[j] => i = j}
\* The dict with the keys ks and the values vs, in that order.
Zip(ks, vs) == [i \in 1..Len(ks) |-> Item(ks[i], vs[i])]

\* The new_data arguments: dicts of at most MaxNew entries.
NewRecords == {m \in SeqsUpTo(NewItems, MaxNew) : DistinctKeys(m)}

\* The states the file can be in before the first call: no file, an empty
\* file, a file that is not JSON, JSON documents whose root is not an object,
\* and objects of at most MaxStored members in any order.
InitStores ==
    {Absent, FileOf(EmptyText), FileOf(RawText("garbage")),
     FileOf(ValText(PyList(<<>>))), FileOf(ValText(PyList(<<PyNum(1)>>))),
     FileOf(ValText(PyNone))}
    \cup {FileOf(ObjText(p)) :
             p \in {m \in SeqsUpTo(StoredItems, MaxStored) : DistinctKeys(m)}}

NoResult == [status |-> "none", ret |-> PyNone]

Init ==
    /\ store \in InitStores
    /\ pre = store
    /\ op = "init"
    /\ arg = <<>>
    /\ res = NoResult

Upsert(new_data) ==
    LET r == update_json_if_different(store, new_data)
    IN /\ store' = r.file
       /\ pre' = store
       /\ op' = "upsert"
       /\ arg' = new_data
       /\ res' = [status |-> r.status, ret |-> r.ret]

Next == \E new_data \in NewRecords : Upsert(new_data)

Spec == Init /\ [][Next]_vars

(***************************************************************************)
(* Properties of the store.                                                *)
(***************************************************************************)
IsMappingStore(f) == f.kind = "file" /\ f.text.j = "obj"

\* The mapping a mapping-rooted file holds.
StoredMap(f) == DictOf(f.text.pairs)

\* The entries persisted in a file: those of its mapping, none otherwise.
StoredEntries(f) == IF IsMappingStore(f) THEN StoredMap(f) ELSE <<>>

SameContent(m1, m2) ==
    /\ DictKeys(m1) = DictKeys(m2)
    /\ \A k \in DictKeys(m1) : DictGet(m1, k) = DictGet(m2, k)

StrictlySorted(m) == \A i \in 1..(Len(m) - 1) : StrLess(m[i].k, m[i + 1].k)

\* C1: a second upsert with the same newRecords leaves the persisted store
\* as the first one left it, whatever the state of the file before.
UpsertIdempotent ==
    (op = "upsert" /\ (pre = Absent \/ IsMappingStore(pre))) =>
        update_json_if_different(store, arg).file = store

\* C2: on an absent file upsert creates an empty mapping document and
\* completes, and the store then holds exactly the entries of newRecords.
UpsertCreatesStore ==
    (op = "upsert" /\ pre = Absent) =>
        /\ res.status = "ok"
        /\ IsMappingStore(store)
        /\ SameContent(StoredMap(store), arg)

\* C3: after upsert on a mapping-rooted store every key of newRecords is
\* stored with the value newRecords gives it.
UpsertSetsEveryKey ==
    (op = "upsert" /\ IsMappingStore(pre)) =>
        /\ IsMappingStore(store)
        /\ \A k \in DictKeys(arg) :
              /\ DictHas(StoredMap(store), k)
              /\ DictGet(StoredMap(store), k) = DictGet(arg, k)

\* C4: every entry persisted before a call whose key is not a key of the
\* call's newRecords is still in the store with its previous value; entries
\* are lost only when the file does not parse (it then holds no entries).
UpsertKeepsOtherKeys ==
    op = "upsert" =>
        \A k \in DictKeys(StoredEntries(pre)) \ DictKeys(arg) :
            /\ DictHas(StoredEntries(store), k)
            /\ DictGet(StoredEntries(store), k) = DictGet(StoredEntries(pre), k)

UpsertKeepsOtherKeysWitness ==
    /\ op = "upsert"
    /\ arg # <<>>
    /\ \E k \in DictKeys(StoredEntries(pre)) : ~DictHas(arg, k)
    /\ \E k \in DictKeys(StoredEntries(pre)) :
          DictHas(arg, k) /\ DictGet(StoredEntries(store), k) # DictGet(StoredEntries(pre), k)

UpsertOnCorruptStore ==
    (op = "upsert" /\ pre.kind = "file" /\ ~JsonLoads(pre.text).ok) =>
        /\ res.status = "ok"
        /\ IsMappingStore(store)
        /\ DistinctKeys(store.text.pairs)
        /\ SameContent(store.text.pairs, arg)

UpsertOnCorruptStoreWitness ==
    /\ op = "upsert"
    /\ pre = FileOf(RawText("garbage"))
    /\ Len(arg) = 2
    /\ res.status = "ok"

(***************************************************************************)
(* select_dictionary_range.                                                *)
(***************************************************************************)
IsDigit(c) == c >= 48 /\ c <= 57

RECURSIVE DigitsValue(_, _)
DigitsValue(cs, acc) ==
    IF cs = <<>> THEN acc
    ELSE DigitsValue(Tail(cs), 10 * acc + (cs[1] - 48))

\* int(key) on a str: an optional sign and then decimal digits (leading
\* zeros are accepted); anything else raises ValueError.
PyInt(key) ==
    LET cs == Spell(key)
        signed == cs # <<>> /\ cs[1] \in {43, 45}
        ds == IF signed THEN Tail(cs) ELSE cs
    IN IF ds # <<>> /\ \A i \in 1..Len(ds) : IsDigit(ds[i])
       THEN [ok |-> TRUE,
             v |-> IF signed /\ cs[1] = 45 THEN 0 - DigitsValue(ds, 0)
                   ELSE DigitsValue(ds, 0)]
       ELSE [ok |-> FALSE, err |-> "ValueError"]

\* The test with an exclusive upper bound.
KeyTestExclusive(key, start_key, end_key) ==
    LET n == PyInt(key)
    IN IF n.ok THEN [ok |-> TRUE, hit |-> start_key <= n.v /\ n.v < end_key]
       ELSE [ok |-> FALSE, hit |-> FALSE]

\* The test with a key that is not an integer taken as out of range.
KeyTestLenient(key, start_key, end_key) ==
    LET n == PyInt(key)
    IN IF n.ok THEN [ok |-> TRUE, hit |-> start_key <= n.v /\ n.v <= end_key]
       ELSE [ok |-> TRUE, hit |-> FALSE]

\* start_key <= int(key) <= end_key: int(key) is evaluated for every key.
KeyTest(key, start_key, end_key) ==
    LET n == PyInt(key)
    IN IF n.ok THEN [ok |-> TRUE, hit |-> start_key <= n.v /\ n.v <= end_key]
       ELSE [ok |-> FALSE, hit |-> FALSE]

\* {key: value for key, value in input_dict.items() if ...}
RECURSIVE SelectLoop(_, _, _, _)
SelectLoop(items, start_key, end_key, selected) ==
    IF items = <<>> THEN [status |-> "ok", ret |-> PyDict(selected)]
    ELSE LET c == KeyTest(items[1].k, start_key, end_key)
         IN IF ~c.ok THEN [status |-> "ValueError", ret |-> PyNone]
            ELSE SelectLoop(Tail(items), start_key, end_key,
                            IF c.hit THEN DictSet(selected, items[1].k, items[1].v)
                            ELSE selected)

select_dictionary_range(input_dict, start_key, end_key) ==
    SelectLoop(input_dict, start_key, end_key, <<>>)

\* Inputs: page-keyed dicts of at most MaxPages entries, with keys that are
\* integers in several spellings and keys that are not integers.
SelectKeys == {"1", "2", "10", "05", "-1", "x", "1x"}
PageTexts == {PyStr(RawText("p")), PyStr(RawText("q"))}
SelectItems == {Item(k, v) : k \in SelectKeys, v \in PageTexts}
SelectDicts == {m \in SeqsUpTo(SelectItems, MaxPages) : DistinctKeys(m)}
RangeEnds == {-1, 1, 2, 5, 10, 11}

InitSelect ==
    /\ store = Absent
    /\ pre = Absent
    /\ op = "init"
    /\ arg \in [dict : SelectDicts, start : RangeEnds, end : RangeEnds]
    /\ res = NoResult

Select ==
    /\ op = "init"
    /\ op' = "select"
    /\ res' = select_dictionary_range(arg.dict, arg.start, arg.end)
    /\ UNCHANGED <<store, pre, arg>>

NextSelect == Select

SpecSelect == InitSelect /\ [][NextSelect]_vars

\* The integer each key of the inputs stands for.
IntKeys == {"1", "2", "10", "05", "-1"}
IntValue(k) ==
    CASE k = "1" -> 1 [] k = "2" -> 2 [] k = "10" -> 10 [] k = "05" -> 5
      [] k = "-1" -> -1

\* C7: when every key parses as an integer, select returns exactly the
\* entries whose key k has start <= int(k) <= end, each with its own key and
\* value; both bounds are inclusive and start > end gives the empty mapping.
SelectReturnsRange ==
    (op = "select" /\ DictKeys(arg.dict) \subseteq IntKeys) =>
        /\ res.status = "ok"
        /\ res.ret.t = "dict"
        /\ DistinctKeys(res.ret.items)
        /\ \A k \in DictKeys(arg.dict) :
              DictHas(res.ret.items, k) <=>
                  (arg.start <= IntValue(k) /\ IntValue(k) <= arg.end)
        /\ \A k \in DictKeys(res.ret.items) :
              DictHas(arg.dict, k) /\ DictGet(res.ret.items, k) = DictGet(arg.dict, k)
        /\ (arg.start > arg.end => res.ret.items = <<>>)

SelectReturnsRangeWitness ==
    /\ op = "select"
    /\ arg.start = 1
    /\ arg.end = 5
    /\ DictKeys(arg.dict) = {"05", "10"}
    /\ DictKeys(res.ret.items) = {"05"}

\* C8: when some key does not parse as an integer, select fails and returns
\* nothing, wherever that key stands and whatever the other keys are.
SelectRejectsBadKey ==
    (op = "select" /\ ~(DictKeys(arg.dict) \subseteq IntKeys)) =>
        /\ res.status = "ValueError"
        /\ res.ret = PyNone

SelectRejectsBadKeyWitness ==
    /\ op = "select"
    /\ Len(arg.dict) = 2
    /\ arg.dict[1].k = "1"
    /\ arg.dict[2].k = "1x"
    /\ arg.start = 1
    /\ arg.end = 1
    /\ res.status = "ValueError"

(***************************************************************************)
(* flatten_json.                                                           *)
(***************************************************************************)
\* if isinstance(rules, str): try: rules = json.loads(rules)
\* except json.JSONDecodeError: continue
CoercePage(rules) ==
    IF rules.t = "str"
    THEN LET r == JsonLoads(rules.text)
         IN IF r.ok THEN [skip |-> FALSE, v |-> r.v] ELSE [skip |-> TRUE, v |-> PyNone]
    ELSE [skip |-> FALSE, v |-> rules]

\* A put that keeps the record already there.
FlattenPutFirst(flattened_data, rule, details) ==
    IF DictHas(flattened_data, rule) THEN flattened_data
    ELSE DictSet(flattened_data, rule, details)

\* flattened_data[rule] = details
FlattenPut(flattened_data, rule, details) == DictSet(flattened_data, rule, details)

\* for rule, details in rules.items(): flattened_data[rule] = details
RECURSIVE FlattenRules(_, _)
FlattenRules(rules, flattened_data) ==
    IF rules = <<>> THEN flattened_data
    ELSE FlattenRules(Tail(rules), FlattenPut(flattened_data, rules[1].k, rules[1].v))

\* for page, rules in data.items(): ...
RECURSIVE FlattenLoop(_, _)
FlattenLoop(pages, flattened_data) ==
    IF pages = <<>> THEN [status |-> "ok", ret |-> PyDict(flattened_data)]
    ELSE LET c == CoercePage(pages[1].v)
         IN IF c.skip THEN FlattenLoop(Tail(pages), flattened_data)
            \* rules.items() on a value that is not a dict
            ELSE IF c.v.t # "dict" THEN [status |-> "AttributeError", ret |-> PyNone]
            ELSE FlattenLoop(Tail(pages), FlattenRules(c.v.items, flattened_data))

\* flatten_json(input_file, output_file) on the document of the input file:
\* how it ends and the document it writes to the output file.
flatten_json(data) == FlattenLoop(data, <<>>)

\* Inputs: page-keyed documents of at most MaxDocPages pages; a page is a
\* mapping of at most MaxRules rules, a str holding the text of a JSON object
\* (in which a rule number may occur twice), a str that is not JSON, or a str
\* holding a JSON array.
RuleRecord(definition) == PyDict(<<Item("definition", PyStr(RawText(definition)))>>)
PageKeys == {"1", "2", "3"}
RuleKeys == {"V.1", "V.2"}
FlatRecords == {RuleRecord("a"), RuleRecord("b")}
FlatRuleItems == {Item(k, v) : k \in RuleKeys, v \in FlatRecords}
FlatPages ==
    {PyDict(m) : m \in {x \in SeqsUpTo(FlatRuleItems, MaxRules) : DistinctKeys(x)}}
    \cup {PyStr(ObjText(p)) : p \in SeqsUpTo(FlatRuleItems, MaxRules)}
    \cup {PyStr(RawText("garbage")), PyStr(ValText(PyList(<<>>)))}

InitFlatten ==
    /\ store = Absent
    /\ pre = Absent
    /\ op = "init"
    /\ \E ks \in KeyOrders(PageKeys, MaxDocPages) :
          \E vs \in [1..Len(ks) -> FlatPages] :
              arg = [fn |-> "flatten", doc |-> Zip(ks, vs)]
    /\ res = NoResult

Flatten ==
    LET r == flatten_json(arg.doc)
    IN /\ op = "init"
       /\ arg.fn = "flatten"
       /\ op' = "flatten"
       /\ res' = r
       /\ store' = IF r.status = "ok" THEN FileOf(JsonDumps(r.ret)) ELSE store
       /\ UNCHANGED <<pre, arg>>

NextFlatten == Flatten

SpecFlatten == InitFlatten /\ [][NextFlatten]_vars

\* A page is decodable when it is a mapping or a str holding a JSON object.
Decodable(v) == v.t = "dict" \/ (v.t = "str" /\ v.text.j = "obj")

\* The rules of a decodable page: of the text of an object, each rule number
\* with the record of its last member.
RulesOf(v) == IF v.t = "dict" THEN v.items ELSE DictOf(v.text.pairs)

\* The last page of the document that is decodable and has the rule.
LastPageWith(doc, rule) ==
    CHOOSE i \in 1..Len(doc) :
        /\ Decodable(doc[i].v) /\ DictHas(RulesOf(doc[i].v), rule)
        /\ \A j \in (i + 1)..Len(doc) :
              ~(Decodable(doc[j].v) /\ DictHas(RulesOf(doc[j].v), rule))

RulesOnDecodablePages(doc) ==
    UNION {IF Decodable(doc[i].v) THEN DictKeys(RulesOf(doc[i].v)) ELSE {} :
              i \in 1..Len(doc)}

\* C9: the output of flatten has exactly the rule numbers of the decodable
\* pages as keys and maps each to the record of its last occurrence in the
\* traversal (pages in document order, rules in page order); the file
\* written holds that mapping.
FlattenLastWins ==
    (op = "flatten" /\ res.status = "ok") =>
        /\ res.ret.t = "dict"
        /\ DistinctKeys(res.ret.items)
        /\ DictKeys(res.ret.items) = RulesOnDecodablePages(arg.doc)
        /\ \A r \in DictKeys(res.ret.items) :
              DictGet(res.ret.items, r) =
                  DictGet(RulesOf(arg.doc[LastPageWith(arg.doc, r)].v), r)
        /\ store = FileOf(ObjText(res.ret.items))

FlattenLastWinsWitness ==
    /\ op = "flatten"
    /\ res.status = "ok"
    /\ Len(arg.doc) = 2
    /\ arg.doc[1].v.t = "dict"
    /\ arg.doc[2].v.t = "str"
    /\ Decodable(arg.doc[2].v)
    /\ DictHas(RulesOf(arg.doc[1].v), "V.1")
    /\ DictHas(RulesOf(arg.doc[2].v), "V.1")
    /\ DictGet(RulesOf(arg.doc[1].v), "V.1") # DictGet(RulesOf(arg.doc[2].v), "V.1")
    /\ DictKeys(res.ret.items) = {"V.1"}

(***************************************************************************)
(* Values shared by extract_terms, extract_information, extract_details.   *)
(***************************************************************************)
\* The text of a JSON number without fraction or exponent.
IsJsonNumber(cs) ==
    LET ds == IF cs # <<>> /\ cs[1] = 45 THEN Tail(cs) ELSE cs
    IN /\ ds # <<>>
       /\ \A i \in 1..Len(ds) : IsDigit(ds[i])
       /\ (Len(ds) > 1 => ds[1] # 48)

\* The str that a dict key is: its text is JSON only when it spells a number.
KeyStr(k) ==
    IF k = "" THEN PyStr(EmptyText)
    ELSE IF IsJsonNumber(Spell(k)) THEN PyStr(ValText(PyNum(PyInt(k).v)))
    ELSE PyStr(RawText(k))

\* A message built by an f-string: the words of its literal parts and the
\* interpolated key.
Message(before, key, after) ==
    PyStr([j |-> "msg", before |-> before, key |-> key, after |-> after])

\* A put that keeps every occurrence, as list.append does.
SetAddAlways(s, x) == Append(s, x)

\* set.add(x) on a set kept as the sequence of its members in the order they
\* came in: x is hashed, and a member equal to x keeps x out.
Hashable(x) == x.t \notin {"dict", "list"}
SetAdd(s, x) == IF \E i \in 1..Len(s) : PyEq(s[i], x) THEN s ELSE Append(s, x)

\* list(s) on a set: the members in the iteration order of the set, which
\* follows their hashes; str hashes are salted per process, so the order is
\* a function of the members and of the hash seed of the run.
RemoveAt(s, i) == SubSeq(s, 1, i - 1) \o SubSeq(s, i + 1, Len(s))

\* The hash seeds of the model: seeds 0 and 1 give both orders of a set of two.
HashSeeds == 0..MaxHashSeed

\* A listing that gives the members as they came in and the last one again.
ListOfSetRepeating(s, seed) == IF s = <<>> THEN <<>> ELSE Append(s, s[Len(s)])

RECURSIVE ListOfSet(_, _)
ListOfSet(s, seed) ==
    IF s = <<>> THEN <<>>
    ELSE LET i == (seed % Len(s)) + 1
         IN <<s[i]>> \o ListOfSet(RemoveAt(s, i), seed \div Len(s))

\* d.get(k, default) on a dict.
PyGet(d, k, default) == IF DictHas(d.items, k) THEN DictGet(d.items, k) ELSE default

\* bool(v)
PyTruthy(v) ==
    CASE v.t = "none" -> FALSE
      [] v.t = "bool" -> v.b
      [] v.t = "num" -> v.n # 0
      [] v.t = "str" -> v.text # EmptyText
      [] v.t = "dict" -> v.items # <<>>
      [] v.t = "list" -> v.elems # <<>>

\* str.lower() on code points.
Lower(cs) == [i \in 1..Len(cs) |-> IF cs[i] >= 65 /\ cs[i] <= 90 THEN cs[i] + 32 ELSE cs[i]]

(***************************************************************************)
(* extract_information.                                                    *)
(***************************************************************************)
\* A test of the term as it is written.
TermMatchesExactly(term, key_to_extract) == term = key_to_extract

\* term.lower() == key_to_extract.lower()
TermMatches(term, key_to_extract) == Lower(Spell(term)) = Lower(Spell(key_to_extract))

\* for term, rule in terms.items(): if ...: rule_numbers.append(rule)
RECURSIVE MatchTerms(_, _, _)
MatchTerms(terms, key_to_extract, rule_numbers) ==
    IF terms = <<>> THEN rule_numbers
    ELSE MatchTerms(Tail(terms), key_to_extract,
                    IF TermMatches(terms[1].k, key_to_extract)
                    THEN Append(rule_numbers, terms[1].v)
                    ELSE rule_numbers)

\* A lookup that takes the first key equal to key_to_extract up to case.
LookupKeyAnyCase(data, key_to_extract) ==
    IF \E i \in 1..Len(data) : Lower(Spell(data[i].k)) = Lower(Spell(key_to_extract))
    THEN [found |-> TRUE,
          v |-> data[CHOOSE i \in 1..Len(data) :
                        /\ Lower(Spell(data[i].k)) = Lower(Spell(key_to_extract))
                        /\ \A j \in 1..(i - 1) :
                              Lower(Spell(data[j].k)) # Lower(Spell(key_to_extract))].v]
    ELSE [found |-> FALSE, v |-> PyNone]

\* if key_to_extract in data: ... data[key_to_extract]
LookupKey(data, key_to_extract) ==
    IF DictHas(data, key_to_extract)
    THEN [found |-> TRUE, v |-> DictGet(data, key_to_extract)]
    ELSE [found |-> FALSE, v |-> PyNone]

\* for key, value in data.items(): ... (mode "rule_numbers")
RECURSIVE RuleNumbersLoop(_, _, _)
RuleNumbersLoop(entries, key_to_extract, rule_numbers) ==
    IF entries = <<>>
    THEN [status |-> "ok",
          ret |-> IF rule_numbers # <<>> THEN PyList(rule_numbers)
                  ELSE Message(<<"Technical", "term", "'">>, key_to_extract,
                               <<"'", "not", "found", "in", "the", "JSON", "file.">>)]
    ELSE LET c == CoercePage(entries[1].v)
         IN IF c.skip THEN RuleNumbersLoop(Tail(entries), key_to_extract, rule_numbers)
            \* value.get on a value that is not a dict
            ELSE IF c.v.t # "dict" THEN [status |-> "AttributeError", ret |-> PyNone]
            ELSE LET t == CoercePage(PyGet(c.v, "terms", PyDict(<<>>)))
                 IN IF t.skip
                    THEN RuleNumbersLoop(Tail(entries), key_to_extract, rule_numbers)
                    \* terms.items() on a value that is not a dict
                    ELSE IF t.v.t # "dict"
                    THEN [status |-> "AttributeError", ret |-> PyNone]
                    ELSE RuleNumbersLoop(Tail(entries), key_to_extract,
                                         MatchTerms(t.v.items, key_to_extract,
                                                    rule_numbers))

extract_information(data, key_to_extract, information_to_extract) ==
    IF information_to_extract = "definition"
    THEN IF LookupKey(data, key_to_extract).found
         THEN LET value == LookupKey(data, key_to_extract).v
              IN \* data[key].get on a value that is not a dict
                 IF value.t # "dict" THEN [status |-> "AttributeError", ret |-> PyNone]
                 ELSE LET definition == PyGet(value, "definition", PyStr(EmptyText))
                      IN IF PyTruthy(definition)
                         THEN [status |-> "ok", ret |-> definition]
                         ELSE [status |-> "ok",
                               ret |-> Message(<<"No", "definition", "found", "for", "key:">>,
                                               key_to_extract, <<>>)]
         ELSE [status |-> "ok",
               ret |-> Message(<<"Key", "'">>, key_to_extract,
                               <<"'", "not", "found", "in", "the", "JSON", "file.">>)]
    ELSE IF information_to_extract = "rule_numbers"
    THEN RuleNumbersLoop(data, key_to_extract, <<>>)
    ELSE [status |-> "ok",
          ret |-> Message(<<"Invalid", "information_to_extract", "value:">>,
                          information_to_extract,
                          <<".", "Use", "'definition'", "or", "'rule_numbers'.">>)]

(***************************************************************************)
(* extract_terms.                                                          *)
(***************************************************************************)
\* concatenated_terms[term] of the defaultdict.
NewTermEntry ==
    [page_number |-> <<>>, rule_number |-> <<>>, definition |-> PyStr(EmptyText),
     terms |-> PyStr(EmptyText), measurements |-> PyStr(EmptyText)]

TermEntry(concatenated_terms, term) ==
    IF DictHas(concatenated_terms, term) THEN DictGet(concatenated_terms, term)
    ELSE NewTermEntry

\* An update of the definition that lets the latest rule record win.
KeepDefinitionLast(current, definition) == definition

\* if not concatenated_terms[term]["definition"]: ... = definition
KeepDefinition(current, definition) == IF ~PyTruthy(current) THEN definition ELSE current

\* The body of "for term, term_rule in terms.items()".
AddTerm(concatenated_terms, term, term_rule, page_number, definition) ==
    LET e == TermEntry(concatenated_terms, term)
    IN DictSet(concatenated_terms, term,
               [e EXCEPT !.page_number = SetAdd(@, page_number),
                         !.rule_number = SetAdd(@, term_rule),
                         !.definition = KeepDefinition(@, definition),
                         !.terms = KeyStr(term)])

RECURSIVE TermsLoop(_, _, _, _)
TermsLoop(terms, concatenated_terms, page_number, definition) ==
    IF terms = <<>> THEN [status |-> "ok", acc |-> concatenated_terms]
    \* set.add of a value that is not hashable
    ELSE IF ~Hashable(page_number) \/ ~Hashable(terms[1].v)
    THEN [status |-> "TypeError", acc |-> concatenated_terms]
    ELSE TermsLoop(Tail(terms),
                   AddTerm(concatenated_terms, terms[1].k, terms[1].v,
                           page_number, definition),
                   page_number, definition)

\* A page number taken from the page key alone.
PageNumberOfPage(key_data, page) == KeyStr(page)

\* page_number = key_data.get("page_number", page)
PageNumber(key_data, page) == PyGet(key_data, "page_number", KeyStr(page))

\* for key, key_data in keys.items(): ... (step 3)
RECURSIVE KeysLoop(_, _, _)
KeysLoop(keys, page, concatenated_terms) ==
    IF keys = <<>> THEN [status |-> "ok", acc |-> concatenated_terms]
    ELSE LET key_data == keys[1].v
         IN \* key_data.get on a value that is not a dict
            IF key_data.t # "dict"
            THEN [status |-> "AttributeError", acc |-> concatenated_terms]
            ELSE LET page_number == PageNumber(key_data, page)
                     terms == PyGet(key_data, "terms", PyDict(<<>>))
                     definition == PyGet(key_data, "definition", PyStr(EmptyText))
                 IN \* terms.items() on a value that is not a dict
                    IF terms.t # "dict"
                    THEN [status |-> "AttributeError", acc |-> concatenated_terms]
                    ELSE LET r == TermsLoop(terms.items, concatenated_terms,
                                            page_number, definition)
                         IN IF r.status # "ok" THEN r
                            ELSE KeysLoop(Tail(keys), page, r.acc)

\* for page, keys in data.items(): ... (step 3)
RECURSIVE ConcatLoop(_, _)
ConcatLoop(pages, concatenated_terms) ==
    IF pages = <<>> THEN [status |-> "ok", acc |-> concatenated_terms]
    ELSE LET c == CoercePage(pages[1].v)
         IN IF c.skip THEN ConcatLoop(Tail(pages), concatenated_terms)
            ELSE IF c.v.t # "dict"
            THEN [status |-> "AttributeError", acc |-> concatenated_terms]
            ELSE LET r == KeysLoop(c.v.items, pages[1].k, concatenated_terms)
                 IN IF r.status # "ok" THEN r
                    ELSE ConcatLoop(Tail(pages), r.acc)

\* Step 4: the sets become lists.
TermRecordOf(e, seed) ==
    PyDict(<<Item("page_number", PyList(ListOfSet(e.page_number, seed))),
             Item("rule_number", PyList(ListOfSet(e.rule_number, seed))),
             Item("definition", e.definition),
             Item("terms", e.terms),
             Item("measurements", e.measurements)>>)

\* Step 5: flattened_data[key] = {...}
FlatRecordOf(value) ==
    PyDict(<<Item("rule_number", PyGet(value, "rule_number", PyStr(EmptyText))),
             Item("definition", PyGet(value, "definition", PyStr(EmptyText))),
             Item("terms", PyGet(value, "terms", PyDict(<<>>))),
             Item("measurements", PyDict(<<>>))>>)

RECURSIVE FlatKeysLoop(_, _)
FlatKeysLoop(keys, flattened_data) ==
    IF keys = <<>> THEN flattened_data
    ELSE FlatKeysLoop(Tail(keys),
                      DictSet(flattened_data, keys[1].k, FlatRecordOf(keys[1].v)))

RECURSIVE FlatPagesLoop(_, _)
FlatPagesLoop(pages, flattened_data) ==
    IF pages = <<>> THEN flattened_data
    ELSE LET c == CoercePage(pages[1].v)
         IN IF c.skip THEN FlatPagesLoop(Tail(pages), flattened_data)
            ELSE FlatPagesLoop(Tail(pages), FlatKeysLoop(c.v.items, flattened_data))

\* Step 6: flattened_data.update(concatenated_terms)
RECURSIVE UpdateWithTerms(_, _, _)
UpdateWithTerms(flattened_data, concatenated_terms, seed) ==
    IF concatenated_terms = <<>> THEN flattened_data
    ELSE UpdateWithTerms(DictSet(flattened_data, concatenated_terms[1].k,
                                 TermRecordOf(concatenated_terms[1].v, seed)),
                         Tail(concatenated_terms), seed)

\* extract_terms(input_file, output_file) on the document of the input file,
\* in a process whose hash seed is seed.
extract_terms(data, seed) ==
    LET c == ConcatLoop(data, <<>>)
    IN IF c.status # "ok" THEN [status |-> c.status, ret |-> PyNone]
       ELSE [status |-> "ok",
             ret |-> PyDict(UpdateWithTerms(FlatPagesLoop(data, <<>>), c.acc, seed))]

(***************************************************************************)
(* extract_details and its helpers.                                        *)
(***************************************************************************)
\* What the LLM collaborator does on one call: it raises, or it answers with
\* a text.
LLMRaises == [raise |-> TRUE]
LLMAnswers(text) == [raise |-> FALSE, text |-> text]

\* invoke_llm(text, prompt) when the collaborator does `response`.
invoke_llm(text, response) ==
    \* text.strip() on a value that is not a str
    IF text.t # "str" THEN [status |-> "AttributeError", v |-> PyNone]
    \* the except branch leaves results_dict unassigned
    ELSE IF response.raise THEN [status |-> "UnboundLocalError", v |-> PyNone]
    ELSE LET r == JsonLoads(response.text)
         IN [status |-> "ok", v |-> IF r.ok THEN r.v ELSE PyDict(<<>>)]

\* dict((term, rule_number) for term in technical_terms)
RECURSIVE TermsToDict(_, _, _)
TermsToDict(technical_terms, rule_number, transformed_terms) ==
    IF technical_terms = <<>> THEN [status |-> "ok", v |-> PyDict(transformed_terms)]
    ELSE LET term == technical_terms[1]
         IN \* a term that is not hashable
            IF term.t \in {"dict", "list"} THEN [status |-> "TypeError", v |-> PyNone]
            ELSE TermsToDict(Tail(technical_terms), rule_number,
                             DictSet(transformed_terms, term.text.id, rule_number))

\* A normalisation that wraps every value that is not a list.
TermListKeepingNone(given) == IF given.t = "list" THEN given.elems ELSE <<given>>

\* if not isinstance(technical_terms, list):
\*     technical_terms = [] if technical_terms == "NONE" else [technical_terms]
TermList(given) ==
    IF given.t = "list" THEN given.elems
    ELSE IF PyEq(given, PyStr(RawText("NONE"))) THEN <<>>
    ELSE <<given>>

\* add_rule_numbers_to_terms(terms_dict, rule_number)["technical_terms"]; the
\* terms of the model are strs that are not JSON.
add_rule_numbers_to_terms(terms_dict, rule_number) ==
    IF terms_dict.t # "dict" THEN [status |-> "AttributeError", v |-> PyNone]
    ELSE TermsToDict(TermList(PyGet(terms_dict, "technical_terms", PyList(<<>>))),
                     rule_number, <<>>)

\* A tagging that keeps the rule# field alone.
TagEntryAlone(value, rule_number) == PyDict(<<Item("rule#", rule_number)>>)

\* value["rule#"] = rule_number
TagEntry(value, rule_number) == PyDict(DictSet(value.items, "rule#", rule_number))

\* for key, value in data_dict.items(): value["rule#"] = rule_number
RECURSIVE TagMeasurements(_, _, _)
TagMeasurements(entries, rule_number, done) ==
    IF entries = <<>> THEN [status |-> "ok", v |-> PyDict(done)]
    ELSE LET value == entries[1].v
         IN \* item assignment on a value that is not a dict
            IF value.t # "dict" THEN [status |-> "TypeError", v |-> PyNone]
            ELSE TagMeasurements(Tail(entries), rule_number,
                                 Append(done, Item(entries[1].k,
                                                   TagEntry(value, rule_number))))

add_rule_number_to_measurements(data_dict, rule_number) ==
    IF data_dict.t # "dict" THEN [status |-> "AttributeError", v |-> PyNone]
    ELSE TagMeasurements(data_dict.items, rule_number, <<>>)

\* The two annotations after "if isinstance(terms, str): ...".
DecodeAnnotations(terms, measurements) ==
    IF terms.t # "str" THEN [status |-> "ok", terms |-> terms, measurements |-> measurements]
    ELSE LET t == JsonLoads(terms.text)
         IN IF ~t.ok
            THEN [status |-> "continue", terms |-> PyNone, measurements |-> PyNone]
            \* json.loads on a value that is not a str
            ELSE IF measurements.t # "str"
            THEN [status |-> "TypeError", terms |-> PyNone, measurements |-> PyNone]
            ELSE LET m == JsonLoads(measurements.text)
                 IN IF ~m.ok
                    THEN [status |-> "continue", terms |-> PyNone, measurements |-> PyNone]
                    ELSE [status |-> "ok", terms |-> t.v, measurements |-> m.v]

\* A record made of the two annotations alone.
AnnotatedAlone(details, terms, measurements) ==
    PyDict(<<Item("terms", terms), Item("measurements", measurements)>>)

\* details["terms"] = terms["technical_terms"]
\* details["measurements"] = measurements
Annotated(details, terms, measurements) ==
    PyDict(DictSet(DictSet(details.items, "terms", terms), "measurements", measurements))

\* The body of "for rule, details in rules.items()" up to the two
\* assignments to details: "ok" with the annotated details, "continue", or
\* the exception that leaves the function.
AnnotateRule(rule, details, llm) ==
    IF details.t # "dict" THEN [status |-> "AttributeError", details |-> PyNone]
    ELSE LET definition == PyGet(details, "definition", PyStr(EmptyText))
             t == invoke_llm(definition, llm.terms)
             m == invoke_llm(definition, llm.measurements)
         IN IF t.status # "ok" THEN [status |-> t.status, details |-> PyNone]
            ELSE IF m.status # "ok" THEN [status |-> m.status, details |-> PyNone]
            ELSE LET d == DecodeAnnotations(t.v, m.v)
                 IN IF d.status # "ok" THEN [status |-> d.status, details |-> PyNone]
                    ELSE LET terms == add_rule_numbers_to_terms(d.terms, KeyStr(rule))
                             measurements ==
                                 add_rule_number_to_measurements(d.measurements,
                                                                 KeyStr(rule))
                         IN IF terms.status # "ok"
                            THEN [status |-> terms.status, details |-> PyNone]
                            ELSE IF measurements.status # "ok"
                            THEN [status |-> measurements.status, details |-> PyNone]
                            ELSE [status |-> "ok",
                                  details |-> Annotated(details, terms.v, measurements.v)]

\* if isinstance(data[page], str): data[page] = json.loads(data[page])
\* data[page][rule] = details
StoreRule(page_value, rule, details) ==
    LET parsed == IF page_value.t = "str" THEN JsonLoads(page_value.text).v
                  ELSE page_value
    IN PyDict(DictSet(parsed.items, rule, details))

\* for rule, details in rules.items(): ...; page_value is data[page].
RECURSIVE RulesLoop(_, _, _)
RulesLoop(rules, page_value, llm) ==
    IF rules = <<>> THEN [status |-> "ok", v |-> page_value]
    ELSE LET a == AnnotateRule(rules[1].k, rules[1].v, llm[rules[1].k])
         IN IF a.status = "continue" THEN RulesLoop(Tail(rules), page_value, llm)
            ELSE IF a.status # "ok" THEN [status |-> a.status, v |-> PyNone]
            ELSE RulesLoop(Tail(rules), StoreRule(page_value, rules[1].k, a.details), llm)

\* A range test that lets every page in.
InRangeAlways(page_number, start_page, end_page) == TRUE

\* if start_page <= page_number <= end_page
InRange(page_number, start_page, end_page) ==
    start_page <= page_number /\ page_number <= end_page

\* for page, rules in data.items(): ...; done holds the pages already visited.
RECURSIVE DetailsLoop(_, _, _, _, _)
DetailsLoop(pages, done, start_page, end_page, llm) ==
    IF pages = <<>> THEN [status |-> "ok", ret |-> PyDict(done)]
    ELSE LET page_number == PyInt(pages[1].k)
         IN IF ~page_number.ok THEN [status |-> "ValueError", ret |-> PyNone]
            ELSE IF ~InRange(page_number.v, start_page, end_page)
            THEN DetailsLoop(Tail(pages), Append(done, pages[1]), start_page, end_page, llm)
            ELSE LET c == CoercePage(pages[1].v)
                 IN IF c.skip
                    THEN DetailsLoop(Tail(pages), Append(done, pages[1]),
                                     start_page, end_page, llm)
                    ELSE IF c.v.t # "dict"
                    THEN [status |-> "AttributeError", ret |-> PyNone]
                    ELSE LET r == RulesLoop(c.v.items, pages[1].v, llm)
                         IN IF r.status # "ok" THEN [status |-> r.status, ret |-> PyNone]
                            ELSE DetailsLoop(Tail(pages),
                                             Append(done, Item(pages[1].k, r.v)),
                                             start_page, end_page, llm)

\* extract_details(input_file, output_file, .., start_page, end_page) on the
\* document of the input file, llm giving what the collaborator does on the
\* two calls for each rule number.
extract_details(data, start_page, end_page, llm) ==
    DetailsLoop(data, <<>>, start_page, end_page, llm)

(***************************************************************************)
(* The four operations on documents whose values come as mappings or as    *)
(* strs.                                                                   *)
(***************************************************************************)
\* Rule records: without and with terms.
RecordA == RuleRecord("a")
RecordB ==
    PyDict(<<Item("rule_number", KeyStr("V.2")),
             Item("definition", PyStr(RawText("b"))),
             Item("terms", PyDict(<<Item("Ab", KeyStr("V.2"))>>))>>)

\* Pages as mappings of at most MaxRules rules, the same pages as strs
\* holding their JSON text, a str that is not JSON, and a str holding a JSON
\* array.
MappingPages ==
    UNION {{PyDict(Zip(ks, vs)) : vs \in [1..Len(ks) -> {RecordA, RecordB}]} :
              ks \in {o \in KeyOrders(RuleKeys, MaxRules) :
                         \A i \in 1..(Len(o) - 1) : StrLess(o[i], o[i + 1])}}
CoercedPages ==
    MappingPages \cup {PyStr(JsonDumps(p)) : p \in MappingPages}
                 \cup {PyStr(RawText("garbage")), PyStr(ValText(PyList(<<>>)))}

\* What the collaborator does on the terms call and the measurements call
\* for one rule: a list of terms and one measurement, the JSON string "NONE",
\* prose that is not JSON, or a failure of the call.
TermsAnswer ==
    LLMAnswers(ObjText(<<Item("technical_terms", PyList(<<PyStr(RawText("Ab"))>>))>>))
MeasurementsAnswer ==
    LLMAnswers(ObjText(<<Item("parameter1",
                              PyDict(<<Item("type", PyStr(RawText("dimension")))>>))>>))
LLMOutcomes ==
    {[terms |-> TermsAnswer, measurements |-> MeasurementsAnswer],
     [terms |-> LLMAnswers(ValText(PyStr(RawText("NONE")))),
      measurements |-> LLMAnswers(ObjText(<<>>))],
     [terms |-> LLMAnswers(RawText("prose")), measurements |-> LLMAnswers(RawText("prose"))],
     [terms |-> LLMRaises, measurements |-> MeasurementsAnswer]}

PageRanges == {[start |-> 1, end |-> 2], [start |-> 2, end |-> 3]}

\* Rule-keyed documents for extract_information: records with terms as a
\* mapping or as a str, records as strs, and strs that are not JSON.
TermsAb == PyDict(<<Item("Ab", KeyStr("V.1")), Item("cd", KeyStr("V.1"))>>)
InfoRecord(terms) == PyDict(<<Item("definition", PyStr(RawText("a"))), Item("terms", terms)>>)
InfoValues ==
    {RecordA, RecordB, InfoRecord(TermsAb), InfoRecord(PyStr(JsonDumps(TermsAb))),
     PyStr(JsonDumps(InfoRecord(TermsAb))),
     PyStr(JsonDumps(InfoRecord(PyStr(JsonDumps(TermsAb))))),
     InfoRecord(PyStr(RawText("garbage"))), PyStr(RawText("garbage"))}
LookupKeys == {"ab", "Ab", "cd", "V.1"}
LookupModes == {"definition", "rule_numbers"}

InitCoerce ==
    /\ store = Absent
    /\ pre = Absent
    /\ op = "init"
    /\ res = NoResult
    /\ \/ \E ks \in KeyOrders(PageKeys, MaxDocPages) :
             \E vs \in [1..Len(ks) -> CoercedPages] :
                 \/ arg = [fn |-> "flatten", doc |-> Zip(ks, vs)]
                 \/ arg = [fn |-> "extract_terms", doc |-> Zip(ks, vs)]
                 \/ \E range \in PageRanges, llm \in [RuleKeys -> LLMOutcomes] :
                        arg = [fn |-> "extract_details", doc |-> Zip(ks, vs),
                               start |-> range.start, end |-> range.end, llm |-> llm]
       \/ \E ks \in KeyOrders(RuleKeys, MaxDocPages) :
             \E vs \in [1..Len(ks) -> InfoValues] :
                 \E key \in LookupKeys, mode \in LookupModes :
                     arg = [fn |-> "extract_information", doc |-> Zip(ks, vs),
                            key |-> key, mode |-> mode]

\* An operation that reads the input file and writes its result, when it
\* completes, to the output file.
Reshape(name, r) ==
    /\ op = "init"
    /\ arg.fn = name
    /\ op' = name
    /\ res' = r
    /\ store' = IF r.status = "ok" THEN FileOf(JsonDumps(r.ret)) ELSE store
    /\ UNCHANGED <<pre, arg>>

\* A run that merges its result into the mapping the output file holds.
ExtractTermsMerging ==
    \E seed \in HashSeeds :
        LET r == extract_terms(arg.doc, seed)
            held == IF store # Absent /\ JsonLoads(store.text).ok
                       /\ JsonLoads(store.text).v.t = "dict"
                    THEN JsonLoads(store.text).v.items ELSE <<>>
        IN /\ arg.fn = "extract_terms"
           /\ op' = "extract_terms"
           /\ res' = r
           /\ pre' = store
           /\ store' = IF r.status = "ok"
                       THEN FileOf(ObjText(MergeLoop(held, r.ret.items))) ELSE store
           /\ UNCHANGED arg

\* One run of extract_terms: every run is a process with its own hash seed;
\* the output file is opened for writing in step 7 only.
ExtractTerms ==
    \E seed \in HashSeeds :
        LET r == extract_terms(arg.doc, seed)
        IN /\ arg.fn = "extract_terms"
           /\ op' = "extract_terms"
           /\ res' = r
           /\ pre' = store
           /\ store' = IF r.status = "ok" THEN FileOf(JsonDumps(r.ret)) ELSE store
           /\ UNCHANGED arg

ExtractDetails ==
    Reshape("extract_details", extract_details(arg.doc, arg.start, arg.end, arg.llm))

\* extract_information returns its result and writes nothing.
ExtractInformation ==
    /\ op = "init"
    /\ arg.fn = "extract_information"
    /\ op' = "extract_information"
    /\ res' = extract_information(arg.doc, arg.key, arg.mode)
    /\ UNCHANGED <<store, pre, arg>>

NextCoerce == Flatten \/ ExtractTerms \/ ExtractDetails \/ ExtractInformation

SpecCoerce == InitCoerce /\ [][NextCoerce]_vars

\* A str holding a JSON object, replaced by the mapping it parses to.
AsMapping(v) == IF v.t = "str" /\ v.text.j = "obj" THEN JsonLoads(v.text).v ELSE v

\* The document with every page given as a mapping.
PagesAsMappings(doc) == [i \in 1..Len(doc) |-> Item(doc[i].k, AsMapping(doc[i].v))]

\* The same for the pages that extract_details reads, those in the range.
RangeAsMappings(doc, start, end) ==
    [i \in 1..Len(doc) |->
        IF PyInt(doc[i].k).ok /\ start <= PyInt(doc[i].k).v /\ PyInt(doc[i].k).v <= end
        THEN Item(doc[i].k, AsMapping(doc[i].v)) ELSE doc[i]]

\* The rule-keyed document with every record, and the terms of every record,
\* given as a mapping.
TermsAsMapping(v) ==
    IF v.t = "dict" /\ DictHas(v.items, "terms")
    THEN PyDict(DictSet(v.items, "terms", AsMapping(DictGet(v.items, "terms"))))
    ELSE v
RecordsAsMappings(doc) ==
    [i \in 1..Len(doc) |-> Item(doc[i].k, TermsAsMapping(AsMapping(doc[i].v)))]

\* C10: at every ingestion site a str holding a JSON object is replaced by
\* the mapping it parses to and a mapping is used as it is, so each operation
\* gives, on a document with such strs, the result it gives on the same
\* document with the mappings in their place.
CoercionTransparent ==
    /\ op = "flatten" => res = flatten_json(PagesAsMappings(arg.doc))
    /\ op = "extract_terms" =>
          \E seed \in HashSeeds : res = extract_terms(PagesAsMappings(arg.doc), seed)
    /\ op = "extract_details" =>
          res = extract_details(RangeAsMappings(arg.doc, arg.start, arg.end),
                                arg.start, arg.end, arg.llm)
    /\ (op = "extract_information" /\ arg.mode = "rule_numbers") =>
          res = extract_information(RecordsAsMappings(arg.doc), arg.key, arg.mode)

\* A str that does not yield a mapping: it is not JSON, or it is JSON but not
\* an object.
NotAMapping(v) ==
    v.t = "str" /\ (~JsonLoads(v.text).ok \/ JsonLoads(v.text).v.t # "dict")

\* The document with an empty mapping in the place of every such str.
EmptyForNonMappings(doc) ==
    [i \in 1..Len(doc) |->
        Item(doc[i].k, IF NotAMapping(doc[i].v) THEN PyDict(<<>>) ELSE doc[i].v)]

\* C11: flatten and extract_terms never raise on a page that is a str not
\* yielding a mapping (text that is not JSON, or JSON that is not an object):
\* they complete and give what they give with an empty mapping in its place.
CoercionAbsorbs ==
    /\ op = "flatten" =>
          /\ res.status = "ok"
          /\ res = flatten_json(EmptyForNonMappings(arg.doc))
    /\ op = "extract_terms" =>
          /\ res.status = "ok"
          /\ \E seed \in HashSeeds :
                 res = extract_terms(EmptyForNonMappings(arg.doc), seed)

(***************************************************************************)
(* Runs of extract_terms on page-keyed documents of rule records.          *)
(***************************************************************************)
\* The rule records that can sit under a rule number: a record with one term
\* and a definition that is empty or not, a record with a page_number field
\* and two terms, a record without terms, and a record whose terms field is
\* the JSON text of the mapping. The rule owns its terms.
TermsOwnedBy(rule) == PyDict(<<Item("Ab", KeyStr(rule))>>)
TermDefinitions == {PyStr(EmptyText), PyStr(RawText("a")), PyStr(RawText("b"))}
TermRuleRecords(rule) ==
    {PyDict(<<Item("definition", definition), Item("terms", TermsOwnedBy(rule))>>) :
        definition \in TermDefinitions}
    \cup {PyDict(<<Item("page_number", PyNum(1)),
                   Item("definition", PyStr(RawText("b"))),
                   Item("terms", PyDict(<<Item("cd", KeyStr(rule)),
                                          Item("Ab", KeyStr(rule))>>))>>),
          RuleRecord("b"),
          PyDict(<<Item("definition", PyStr(RawText("a"))),
                   Item("terms", PyStr(JsonDumps(TermsOwnedBy(rule))))>>)}

\* Pages of at most MaxRules rules and documents of at most MaxDocPages pages.
TermPages ==
    UNION {{PyDict(Zip(ks, vs)) :
               vs \in {f \in [1..Len(ks) -> UNION {TermRuleRecords(r) : r \in RuleKeys}] :
                          \A i \in 1..Len(ks) : f[i] \in TermRuleRecords(ks[i])}} :
              ks \in {o \in KeyOrders(RuleKeys, MaxRules) :
                         \A i \in 1..(Len(o) - 1) : StrLess(o[i], o[i + 1])}}
TermPageKeys == {"1", "2"}

\* What the output file holds before the first run: nothing, or the output of
\* an earlier run on another document.
StaleOutput == FileOf(ObjText(<<Item("x", PyDict(<<Item("definition", PyStr(RawText("b")))>>))>>))

InitTerms ==
    /\ store \in {Absent, StaleOutput}
    /\ pre = Absent
    /\ op = "init"
    /\ res = NoResult
    /\ \E ks \in {o \in KeyOrders(TermPageKeys, MaxDocPages) :
                      \A i \in 1..(Len(o) - 1) : StrLess(o[i], o[i + 1])} :
          \E vs \in [1..Len(ks) -> TermPages] :
              arg = [fn |-> "extract_terms", doc |-> Zip(ks, vs)]

NextTerms == ExtractTerms

SpecTerms == InitTerms /\ [][NextTerms]_vars

\* The rule records of a document of mapping pages, by position: page i,
\* rule j; traversal order is page by page, rule by rule.
RecordPositions(doc) ==
    UNION {{<<i, j>> : j \in 1..Len(doc[i].v.items)} : i \in 1..Len(doc)}
RecordAt(doc, p) == doc[p[1]].v.items[p[2]].v
Before(p, q) == p[1] < q[1] \/ (p[1] = q[1] /\ p[2] <= q[2])

TermsAt(doc, p) ==
    IF DictHas(RecordAt(doc, p).items, "terms")
    THEN DictGet(RecordAt(doc, p).items, "terms") ELSE PyDict(<<>>)
DefinitionAt(doc, p) ==
    IF DictHas(RecordAt(doc, p).items, "definition")
    THEN DictGet(RecordAt(doc, p).items, "definition") ELSE PyStr(EmptyText)
PageNumberAt(doc, p) ==
    IF DictHas(RecordAt(doc, p).items, "page_number")
    THEN DictGet(RecordAt(doc, p).items, "page_number") ELSE KeyStr(doc[p[1]].k)

TermsAreMappings(doc) == \A p \in RecordPositions(doc) : TermsAt(doc, p).t = "dict"

\* The rule records whose terms mapping has the term, and every term.
Holders(doc, t) ==
    {p \in RecordPositions(doc) :
        TermsAt(doc, p).t = "dict" /\ DictHas(TermsAt(doc, p).items, t)}
TermsOfDoc(doc) ==
    UNION {IF TermsAt(doc, p).t = "dict" THEN DictKeys(TermsAt(doc, p).items) ELSE {} :
              p \in RecordPositions(doc)}

\* A field of a record of the output, and a list read as a set.
Field(rec, name) == DictGet(rec.items, name)
ListAsSet(l) == {l.elems[i] : i \in 1..Len(l.elems)}
NoRepeats(l) == \A i, j \in 1..Len(l.elems) : PyEq(l.elems[i], l.elems[j]) => i = j

\* C12: for every term of the document, extract_terms emits a TermRecord
\* whose rule_number list has exactly the owning rule numbers of the rule
\* records that have the term, each once.
AggregateRuleNumbers ==
    (op = "extract_terms" /\ TermsAreMappings(arg.doc)) =>
        /\ res.status = "ok"
        /\ \A t \in TermsOfDoc(arg.doc) :
              /\ DictHas(res.ret.items, t)
              /\ LET l == Field(DictGet(res.ret.items, t), "rule_number")
                     owning == {DictGet(TermsAt(arg.doc, p).items, t) :
                                   p \in Holders(arg.doc, t)}
                 IN /\ l.t = "list"
                    /\ ListAsSet(l) = owning
                    /\ Len(l.elems) = Cardinality(owning)

AggregateRuleNumbersWitness ==
    /\ op = "extract_terms"
    /\ res.status = "ok"
    /\ Cardinality(Holders(arg.doc, "Ab")) = 2
    /\ ListAsSet(Field(DictGet(res.ret.items, "Ab"), "rule_number"))
           = {KeyStr("V.1"), KeyStr("V.2")}

\* C13: the definition of a TermRecord is the definition of the first rule
\* record, in traversal order, that has the term and a non-empty definition;
\* later rule records with the term do not change it.
AggregateFirstDefinition ==
    (op = "extract_terms" /\ res.status = "ok") =>
        \A t \in TermsOfDoc(arg.doc) :
            LET defined == {p \in Holders(arg.doc, t) : PyTruthy(DefinitionAt(arg.doc, p))}
                first == CHOOSE p \in defined : \A q \in defined : Before(p, q)
            IN Field(DictGet(res.ret.items, t), "definition") =
                   IF defined = {} THEN PyStr(EmptyText) ELSE DefinitionAt(arg.doc, first)

AggregateFirstDefinitionWitness ==
    /\ op = "extract_terms"
    /\ res.status = "ok"
    /\ Len(arg.doc) = 2
    /\ Holders(arg.doc, "Ab") = {<<1, 1>>, <<2, 1>>}
    /\ DefinitionAt(arg.doc, <<1, 1>>) = PyStr(RawText("a"))
    /\ DefinitionAt(arg.doc, <<2, 1>>) = PyStr(RawText("b"))
    /\ Field(DictGet(res.ret.items, "Ab"), "definition") = PyStr(RawText("a"))

\* C14: a rule record whose terms field is a str holding the JSON text of a
\* term-to-rule mapping is folded as if the field were the mapping: the run
\* ends as it ends on the document with the mappings in place, with the same
\* TermRecords.
TermsFieldsAsMappings(doc) ==
    [i \in 1..Len(doc) |->
        Item(doc[i].k,
             PyDict([j \in 1..Len(doc[i].v.items) |->
                        Item(doc[i].v.items[j].k, TermsAsMapping(doc[i].v.items[j].v))]))]

AggregateCoercesTerms ==
    op = "extract_terms" =>
        LET m == extract_terms(TermsFieldsAsMappings(arg.doc), 0)
        IN /\ res.status = m.status
           /\ res.status = "ok" =>
                 \A t \in TermsOfDoc(TermsFieldsAsMappings(arg.doc)) :
                     /\ DictHas(res.ret.items, t)
                     /\ \A f \in {"page_number", "rule_number"} :
                            ListAsSet(Field(DictGet(res.ret.items, t), f))
                                = ListAsSet(Field(DictGet(m.ret.items, t), f))
                     /\ Field(DictGet(res.ret.items, t), "definition")
                            = Field(DictGet(m.ret.items, t), "definition")

\* C15: the page_number list of a TermRecord has exactly the page numbers of
\* the rule records that have the term, each once; the page number of a rule
\* record is its page_number field, or without one the key of its page.
AggregatePageNumbers ==
    (op = "extract_terms" /\ res.status = "ok") =>
        \A t \in TermsOfDoc(arg.doc) :
            LET l == Field(DictGet(res.ret.items, t), "page_number")
                pages == {PageNumberAt(arg.doc, p) : p \in Holders(arg.doc, t)}
            IN /\ l.t = "list"
               /\ ListAsSet(l) = pages
               /\ Len(l.elems) = Cardinality(pages)

AggregatePageNumbersWitness ==
    /\ op = "extract_terms"
    /\ res.status = "ok"
    /\ Cardinality(Holders(arg.doc, "Ab")) = 2
    /\ ListAsSet(Field(DictGet(res.ret.items, "Ab"), "page_number"))
           = {PyNum(1), KeyStr("2")}

\* Two records of an output with the same fields, page_number and
\* rule_number lists compared as sets.
SameRecord(x, y) ==
    /\ DictKeys(x.items) = DictKeys(y.items)
    /\ \A f \in DictKeys(x.items) :
          IF f \in {"page_number", "rule_number"} /\ Field(x, f).t = "list"
             /\ Field(y, f).t = "list"
          THEN ListAsSet(Field(x, f)) = ListAsSet(Field(y, f))
          ELSE Field(x, f) = Field(y, f)
SameRecords(a, b) ==
    /\ DictKeys(a) = DictKeys(b)
    /\ \A k \in DictKeys(a) : SameRecord(DictGet(a, k), DictGet(b, k))

\* C16: what a run of extract_terms writes is a function of the input
\* document alone: whatever the output file held before and whatever the
\* order in which the run lists its sets, the file holds the records of the
\* document, page_number and rule_number compared as sets.
AggregateIsPure ==
    (op = "extract_terms" /\ res.status = "ok") =>
        /\ store # Absent
        /\ JsonLoads(store.text).ok
        /\ SameRecords(JsonLoads(store.text).v.items, extract_terms(arg.doc, 0).ret.items)

AggregateIsPureWitness ==
    /\ op = "extract_terms"
    /\ res.status = "ok"
    /\ pre # Absent
    /\ pre # StaleOutput
    /\ pre # store

InfoRuleRecords(rule) ==
    {PyDict(<<Item("definition", PyStr(RawText("a"))), Item("terms", TermsOwnedBy(rule))>>),
     PyDict(<<Item("definition", PyStr(EmptyText)),
              Item("terms", PyDict(<<Item("ab", KeyStr(rule)),
                                     Item("cd", KeyStr(rule))>>))>>),
     RuleRecord("b"),
     PyDict(<<Item("definition", PyStr(RawText("a"))),
              Item("terms", PyStr(JsonDumps(TermsOwnedBy(rule))))>>),
     PyDict(<<Item("definition", PyStr(RawText("b"))),
              Item("terms", PyDict(<<Item("10", KeyStr(rule))>>))>>)}

InfoPages ==
    UNION {{PyDict(Zip(ks, vs)) :
               vs \in {f \in [1..Len(ks) -> UNION {InfoRuleRecords(r) : r \in RuleKeys}] :
                          \A i \in 1..Len(ks) : f[i] \in InfoRuleRecords(ks[i])}} :
              ks \in {o \in KeyOrders(RuleKeys, MaxRules) :
                         \A i \in 1..(Len(o) - 1) : StrLess(o[i], o[i + 1])}}

\* The document a file holds after json.dump and json.load.
Persisted(ret) == JsonLoads(JsonDumps(ret)).v.items

\* The layouts: the page-keyed document, what flatten_json writes from it,
\* and what extract_terms writes from it.
Layouts == {"paged", "flattened", "combined"}
LayoutExists(layout, doc) ==
    layout = "combined" => extract_terms(doc, 0).status = "ok"
InLayout(layout, doc) ==
    CASE layout = "paged" -> doc
      [] layout = "flattened" -> Persisted(flatten_json(doc).ret)
      [] layout = "combined" -> Persisted(extract_terms(doc, 0).ret)

InfoLookupKeys == {"ab", "Ab", "cd", "V.1", "x"}

InitInfo ==
    /\ store = Absent
    /\ pre = Absent
    /\ op = "init"
    /\ res = NoResult
    /\ \E ks \in {o \in KeyOrders(TermPageKeys, MaxDocPages) :
                      \A i \in 1..(Len(o) - 1) : StrLess(o[i], o[i + 1])} :
          \E vs \in [1..Len(ks) -> InfoPages] :
              \E layout \in Layouts, key \in InfoLookupKeys, mode \in LookupModes :
                  /\ LayoutExists(layout, Zip(ks, vs))
                  /\ arg = [fn |-> "extract_information",
                            doc |-> InLayout(layout, Zip(ks, vs)),
                            key |-> key, mode |-> mode]

NextInfo == ExtractInformation

SpecInfo == InitInfo /\ [][NextInfo]_vars

\* A message and the words of its literal parts.
IsMessage(v) == v.t = "str" /\ v.text.j = "msg"
HasWords(ws, words) ==
    \E i \in 0..(Len(ws) - Len(words)) : \A j \in 1..Len(words) : ws[i + j] = words[j]
SaysNotFound(v) ==
    HasWords(v.text.before, <<"not", "found">>) \/ HasWords(v.text.after, <<"not", "found">>)

\* C18: in mode "definition" the key is matched as it is written: when the
\* document has the key with a record whose definition is not empty, that
\* definition is returned; when the document does not have the key, a
\* message that contains "not found" is returned.
InfoDefinitionExact ==
    (op = "extract_information" /\ arg.mode = "definition") =>
        /\ (/\ DictHas(arg.doc, arg.key)
            /\ DictGet(arg.doc, arg.key).t = "dict"
            /\ DictHas(DictGet(arg.doc, arg.key).items, "definition")
            /\ PyTruthy(Field(DictGet(arg.doc, arg.key), "definition")))
           => res = [status |-> "ok",
                     ret |-> Field(DictGet(arg.doc, arg.key), "definition")]
        /\ ~DictHas(arg.doc, arg.key)
           => /\ res.status = "ok"
              /\ IsMessage(res.ret)
              /\ SaysNotFound(res.ret)

InfoDefinitionExactWitness ==
    /\ op = "extract_information"
    /\ arg.mode = "definition"
    /\ arg.key = "ab"
    /\ DictHas(arg.doc, "Ab")
    /\ PyTruthy(Field(DictGet(arg.doc, "Ab"), "definition"))
    /\ ~DictHas(arg.doc, "ab")
    /\ IsMessage(res.ret)

\* The terms mapping that the scan reads from an entry of the document, when
\* it reads one: the entry and its terms field are mappings or strs holding
\* the JSON text of a mapping.
ScannedTerms(v) ==
    LET rec == AsMapping(v)
        terms == IF rec.t = "dict" /\ DictHas(rec.items, "terms")
                 THEN AsMapping(Field(rec, "terms")) ELSE PyDict(<<>>)
    IN IF terms.t = "dict" THEN terms.items ELSE <<>>

\* The entries of the terms mappings whose term is the query up to case.
Matching(doc, key) ==
    UNION {{<<i, j>> : j \in {n \in 1..Len(ScannedTerms(doc[i].v)) :
                                  Lower(Spell(ScannedTerms(doc[i].v)[n].k))
                                      = Lower(Spell(key))}} :
              i \in 1..Len(doc)}
OwnerAt(doc, p) == ScannedTerms(doc[p[1]].v)[p[2]].v

\* C19: in mode "rule_numbers" a completed lookup with a matching entry
\* returns the list of the owning rules of the entries of the terms mappings
\* whose term equals the query up to case, one element per such entry and no
\* other element.
InfoRuleNumbers ==
    (/\ op = "extract_information"
     /\ arg.mode = "rule_numbers"
     /\ res.status = "ok"
     /\ Matching(arg.doc, arg.key) # {}) =>
        /\ res.ret.t = "list"
        /\ Len(res.ret.elems) = Cardinality(Matching(arg.doc, arg.key))
        /\ \A rule \in ListAsSet(res.ret) \cup
                        {OwnerAt(arg.doc, p) : p \in Matching(arg.doc, arg.key)} :
              Cardinality({n \in 1..Len(res.ret.elems) : res.ret.elems[n] = rule})
                  = Cardinality({p \in Matching(arg.doc, arg.key) :
                                    OwnerAt(arg.doc, p) = rule})

InfoRuleNumbersWitness ==
    /\ op = "extract_information"
    /\ arg.mode = "rule_numbers"
    /\ arg.key = "ab"
    /\ DictKeys(arg.doc) = {"V.1", "V.2"}
    /\ res.status = "ok"
    /\ res.ret = PyList(<<KeyStr("V.1"), KeyStr("V.2")>>)
    /\ \E p \in Matching(arg.doc, "ab") : ScannedTerms(arg.doc[p[1]].v)[p[2]].k = "Ab"

\* C20: on a document in any of the three layouts a lookup that matches
\* nothing returns a message and does not raise, in both modes.
MatchesNothing(doc, key, mode) ==
    IF mode = "definition" THEN ~DictHas(doc, key) ELSE Matching(doc, key) = {}

InfoNeverRaises ==
    (op = "extract_information" /\ MatchesNothing(arg.doc, arg.key, arg.mode)) =>
        /\ res.status = "ok"
        /\ IsMessage(res.ret)

(***************************************************************************)
(* The two helpers that attach the owning rule to the answers of the LLM.  *)
(***************************************************************************)
\* Answers to the terms prompt: technical_terms as a list of at most
\* MaxAnnotations terms (a term may come twice), as the str "NONE", as a bare
\* term, or missing.
TermTexts == {PyStr(RawText("Ab")), PyStr(RawText("cd")), PyStr(RawText("NONE"))}
TermsResults ==
    {PyDict(<<Item("technical_terms", PyList(l))>>) : l \in SeqsUpTo(TermTexts, MaxAnnotations)}
    \cup {PyDict(<<Item("technical_terms", t)>>) :
             t \in {PyStr(RawText("NONE")), PyStr(RawText("Ab"))}}
    \cup {PyDict(<<>>)}

\* Answers to the measurements prompt: at most MaxAnnotations entries under
\* synthetic keys; an entry is a mapping (with or without a rule# field) or
\* a value of another shape.
MeasurementEntries ==
    {PyDict(<<Item("type", PyStr(RawText("dimension")))>>),
     PyDict(<<Item("rule#", KeyStr("V.2")), Item("type", PyStr(RawText("dimension")))>>),
     PyStr(RawText("12 mm")), PyNum(12), PyList(<<>>), PyNone}
MeasurementKeyOrders ==
    {ks \in {<<>>, <<"parameter1">>, <<"parameter2">>, <<"parameter1", "parameter2">>} :
        Len(ks) <= MaxAnnotations}
MeasurementsResults ==
    UNION {{PyDict(Zip(ks, vs)) : vs \in [1..Len(ks) -> MeasurementEntries]} :
              ks \in MeasurementKeyOrders}

InitAnnotate ==
    /\ store = Absent
    /\ pre = Absent
    /\ op = "init"
    /\ res = NoResult
    /\ \E rule \in RuleKeys :
          \/ \E terms_dict \in TermsResults :
                 arg = [fn |-> "add_rule_numbers_to_terms", terms_dict |-> terms_dict,
                        rule_number |-> KeyStr(rule)]
          \/ \E data_dict \in MeasurementsResults :
                 arg = [fn |-> "add_rule_number_to_measurements", data_dict |-> data_dict,
                        rule_number |-> KeyStr(rule)]

AddRuleNumbersToTerms ==
    LET r == add_rule_numbers_to_terms(arg.terms_dict, arg.rule_number)
    IN /\ op = "init"
       /\ arg.fn = "add_rule_numbers_to_terms"
       /\ op' = "add_rule_numbers_to_terms"
       /\ res' = [status |-> r.status, ret |-> r.v]
       /\ UNCHANGED <<store, pre, arg>>

\* The first call on the answer, and a second call on what the first
\* returned.
AddRuleNumberToMeasurements ==
    /\ arg.fn = "add_rule_number_to_measurements"
    /\ \/ /\ op = "init"
          /\ LET r == add_rule_number_to_measurements(arg.data_dict, arg.rule_number)
             IN res' = [status |-> r.status, ret |-> r.v]
          /\ op' = "add_rule_number_to_measurements"
       \/ /\ op = "add_rule_number_to_measurements"
          /\ res.status = "ok"
          /\ LET r == add_rule_number_to_measurements(res.ret, arg.rule_number)
             IN res' = [status |-> r.status, ret |-> r.v]
          /\ op' = "add_rule_number_to_measurements twice"
    /\ UNCHANGED <<store, pre, arg>>

NextAnnotate == AddRuleNumbersToTerms \/ AddRuleNumberToMeasurements

SpecAnnotate == InitAnnotate /\ [][NextAnnotate]_vars

\* The terms of an answer, as the claim lists them.
GivenTerms(terms_dict) ==
    IF ~DictHas(terms_dict.items, "technical_terms") THEN <<>>
    ELSE LET given == Field(terms_dict, "technical_terms")
         IN IF given.t = "list" THEN given.elems
            ELSE IF given = PyStr(RawText("NONE")) THEN <<>>
            ELSE <<given>>

AfterTagging == {"add_rule_number_to_measurements", "add_rule_number_to_measurements twice"}
EntriesAreMappings(data_dict) ==
    \A i \in 1..Len(data_dict.items) : data_dict.items[i].v.t = "dict"

\* C22: add_rule_number_to_measurements returns the entries of its input
\* under the same keys, each with a rule# field equal to the rule number and
\* every other field as it was; a second call with the same rule number
\* returns the same.
MeasurementsTagged ==
    (op \in AfterTagging /\ EntriesAreMappings(arg.data_dict)) =>
        /\ res.status = "ok"
        /\ res.ret.t = "dict"
        /\ Len(res.ret.items) = Len(arg.data_dict.items)
        /\ \A i \in 1..Len(res.ret.items) :
              LET in == arg.data_dict.items[i]
                  out == res.ret.items[i]
              IN /\ out.k = in.k
                 /\ out.v.t = "dict"
                 /\ DictKeys(out.v.items) = DictKeys(in.v.items) \cup {"rule#"}
                 /\ Field(out.v, "rule#") = arg.rule_number
                 /\ \A f \in DictKeys(in.v.items) \ {"rule#"} :
                        Field(out.v, f) = Field(in.v, f)

MeasurementsTaggedWitness ==
    /\ op = "add_rule_number_to_measurements twice"
    /\ arg.rule_number = KeyStr("V.1")
    /\ Len(arg.data_dict.items) = 2
    /\ DictHas(arg.data_dict.items[1].v.items, "rule#")
    /\ ~DictHas(arg.data_dict.items[2].v.items, "rule#")
    /\ res.status = "ok"

\* C23: measurement entries are not validated: an entry of any shape, a
\* mapping or not, passes through add_rule_number_to_measurements without an
\* error, an entry that is not a mapping as it is.
MeasurementsPassThrough ==
    op \in AfterTagging =>
        /\ res.status = "ok"
        /\ \A i \in 1..Len(arg.data_dict.items) :
              arg.data_dict.items[i].v.t # "dict" =>
                  res.ret.items[i] = arg.data_dict.items[i]

(***************************************************************************)
(* Runs of extract_details.                                                *)
(***************************************************************************)
\* Rule records before annotation: a definition alone, and a record with
\* every field and terms of an earlier run.
DetailRecords(rule) ==
    {RuleRecord("a"),
     PyDict(<<Item("page_number", PyNum(1)), Item("rule_number", KeyStr(rule)),
              Item("definition", PyStr(RawText("b"))),
              Item("terms", PyDict(<<Item("cd", KeyStr(rule))>>))>>)}

\* Pages: mappings of at most MaxRules rules, the same as strs, and a str
\* that is not JSON.
DetailMappingPages ==
    UNION {{PyDict(Zip(ks, vs)) :
               vs \in {f \in [1..Len(ks) -> UNION {DetailRecords(r) : r \in RuleKeys}] :
                          \A i \in 1..Len(ks) : f[i] \in DetailRecords(ks[i])}} :
              ks \in {o \in KeyOrders(RuleKeys, MaxRules) :
                         \A i \in 1..(Len(o) - 1) : StrLess(o[i], o[i + 1])}}
DetailPages ==
    DetailMappingPages \cup {PyStr(JsonDumps(p)) : p \in DetailMappingPages}
                       \cup {PyStr(RawText("garbage"))}
DetailPageKeys == {"1", "3"}

\* What the collaborator does for one rule: the answers of LLMOutcomes, and a
\* measurements answer whose entry is not a mapping.
GoodOutcome == [terms |-> TermsAnswer, measurements |-> MeasurementsAnswer]
ProseOutcome ==
    [terms |-> LLMAnswers(RawText("prose")), measurements |-> LLMAnswers(RawText("prose"))]
RaisingOutcome == [terms |-> LLMRaises, measurements |-> MeasurementsAnswer]
DetailOutcomes ==
    LLMOutcomes \cup
    {[terms |-> TermsAnswer,
      measurements |-> LLMAnswers(ObjText(<<Item("parameter1", PyStr(RawText("12 mm")))>>))]}

InitDetails ==
    /\ store = Absent
    /\ pre = Absent
    /\ op = "init"
    /\ res = NoResult
    /\ \E ks \in {o \in KeyOrders(DetailPageKeys, MaxDocPages) :
                      \A i \in 1..(Len(o) - 1) : StrLess(o[i], o[i + 1])} :
          \E vs \in [1..Len(ks) -> DetailPages] :
              \E range \in PageRanges, llm \in [RuleKeys -> DetailOutcomes] :
                  arg = [fn |-> "extract_details", doc |-> Zip(ks, vs),
                         start |-> range.start, end |-> range.end, llm |-> llm]

NextDetails == ExtractDetails

SpecDetails == InitDetails /\ [][NextDetails]_vars

\* The pages of the range that hold rules, and the rules of such a page
\* that get annotations (the others are passed over).
PageInRange(doc, i, start, end) ==
    LET n == PyInt(doc[i].k) IN n.ok /\ start <= n.v /\ n.v <= end
AnnotatedRules(doc, llm, start, end) ==
    UNION {IF PageInRange(doc, i, start, end) /\ Decodable(doc[i].v)
           THEN {<<i, r>> : r \in {k \in DictKeys(RulesOf(doc[i].v)) :
                                     llm[k] \in {GoodOutcome, ProseOutcome}}}
           ELSE {} : i \in 1..Len(doc)}

\* The annotations of a rule, from the answers of the collaborator.
ExpectedTerms(outcome, rule) ==
    IF outcome = GoodOutcome THEN PyDict(<<Item("Ab", KeyStr(rule))>>) ELSE PyDict(<<>>)
ExpectedMeasurements(outcome, rule) ==
    IF outcome = GoodOutcome
    THEN PyDict(<<Item("parameter1",
                       PyDict(<<Item("type", PyStr(RawText("dimension"))),
                                Item("rule#", KeyStr(rule))>>))>>)
    ELSE PyDict(<<>>)

\* C24: for every rule that extract_details annotates, the record written
\* is under the same page and rule number, has the term-to-rule mapping as
\* terms and the tagged measurements as measurements, and has every other
\* field as in the input.
DetailsAnnotated ==
    (op = "extract_details" /\ res.status = "ok") =>
        /\ store = FileOf(JsonDumps(res.ret))
        /\ \A p \in AnnotatedRules(arg.doc, arg.llm, arg.start, arg.end) :
              LET before == DictGet(RulesOf(arg.doc[p[1]].v), p[2])
                  page == res.ret.items[p[1]]
              IN /\ page.k = arg.doc[p[1]].k
                 /\ page.v.t = "dict"
                 /\ DictHas(page.v.items, p[2])
                 /\ LET after == DictGet(page.v.items, p[2])
                    IN /\ DictKeys(after.items)
                              = DictKeys(before.items) \cup {"terms", "measurements"}
                       /\ Field(after, "terms") = ExpectedTerms(arg.llm[p[2]], p[2])
                       /\ Field(after, "measurements")
                              = ExpectedMeasurements(arg.llm[p[2]], p[2])
                       /\ \A f \in DictKeys(before.items) \ {"terms", "measurements"} :
                              Field(after, f) = Field(before, f)

DetailsAnnotatedWitness ==
    /\ op = "extract_details"
    /\ res.status = "ok"
    /\ arg.start = 1
    /\ Len(arg.doc) = 1
    /\ arg.doc[1].k = "1"
    /\ arg.doc[1].v.t = "str"
    /\ Decodable(arg.doc[1].v)
    /\ DictHas(RulesOf(arg.doc[1].v), "V.1")
    /\ DictHas(DictGet(RulesOf(arg.doc[1].v), "V.1").items, "terms")
    /\ arg.llm["V.1"] = GoodOutcome
    /\ Field(DictGet(res.ret.items[1].v.items, "V.1"), "terms")
           = PyDict(<<Item("Ab", KeyStr("V.1"))>>)

\* C25: when the collaborator fails on the call for a rule, extract_details
\* goes on with the remaining rules and pages and writes its output.
DetailsSurviveFailure ==
    (/\ op = "extract_details"
     /\ \A r \in RuleKeys : arg.llm[r] \in {GoodOutcome, RaisingOutcome}) =>
        /\ res.status = "ok"
        /\ store = FileOf(JsonDumps(res.ret))

\* C30: extract_details writes a document with the page keys of the input,
\* in which every page outside [start_page, end_page] has the value it had.
DetailsKeepOtherPages ==
    (op = "extract_details" /\ res.status = "ok") =>
        /\ store = FileOf(JsonDumps(res.ret))
        /\ Len(res.ret.items) = Len(arg.doc)
        /\ \A i \in 1..Len(arg.doc) :
              /\ res.ret.items[i].k = arg.doc[i].k
              /\ ~PageInRange(arg.doc, i, arg.start, arg.end) =>
                    res.ret.items[i].v = arg.doc[i].v

DetailsKeepOtherPagesWitness ==
    /\ op = "extract_details"
    /\ res.status = "ok"
    /\ arg.start = 1
    /\ Len(arg.doc) = 2
    /\ arg.doc[2].k = "3"
    /\ arg.doc[2].v.t = "dict"
    /\ arg.doc[2].v.items # <<>>
    /\ res.ret.items[1].v # arg.doc[1].v
    /\ res.ret.items[2].v = arg.doc[2].v

(***************************************************************************)
(* extract_term_as_key: the term summary of an annotated document.         *)
(***************************************************************************)
\* defaultdict(lambda: {"pages": set(), "rules": set()})
NewSummaryEntry == [pages |-> <<>>, rules |-> <<>>, definition |-> PyNone]

\* The body of "for term, rule in terms.items()".
RECURSIVE SummaryTermsLoop(_, _, _, _, _)
SummaryTermsLoop(terms, concatenated_terms, page_number, rule_number, definition) ==
    IF terms = <<>> THEN [status |-> "ok", acc |-> concatenated_terms]
    \* set.add of a value that is not hashable
    ELSE IF ~Hashable(page_number) \/ ~Hashable(rule_number)
    THEN [status |-> "TypeError", acc |-> concatenated_terms]
    ELSE LET term == terms[1].k
             e == IF DictHas(concatenated_terms, term)
                  THEN DictGet(concatenated_terms, term) ELSE NewSummaryEntry
         IN SummaryTermsLoop(Tail(terms),
                DictSet(concatenated_terms, term,
                        [e EXCEPT !.pages = SetAdd(@, page_number),
                                  !.rules = SetAdd(@, rule_number),
                                  !.definition = definition]),
                page_number, rule_number, definition)

\* for key, rule_data in page_data.items(): ...
RECURSIVE SummaryRulesLoop(_, _, _)
SummaryRulesLoop(rules, page, concatenated_terms) ==
    IF rules = <<>> THEN [status |-> "ok", acc |-> concatenated_terms]
    ELSE LET rule_data == rules[1].v
         IN \* rule_data.get on a value that is not a dict
            IF rule_data.t # "dict"
            THEN [status |-> "AttributeError", acc |-> concatenated_terms]
            ELSE LET page_number == PyGet(rule_data, "page#", KeyStr(page))
                     rule_number == PyGet(rule_data, "rule#", PyStr(EmptyText))
                     definition == PyGet(rule_data, "definition", PyStr(EmptyText))
                     terms == PyGet(rule_data, "terms", PyDict(<<>>))
                 IN \* terms.items() on a value that is not a dict
                    IF terms.t # "dict"
                    THEN [status |-> "AttributeError", acc |-> concatenated_terms]
                    ELSE LET r == SummaryTermsLoop(terms.items, concatenated_terms,
                                                   page_number, rule_number, definition)
                         IN IF r.status # "ok" THEN r
                            ELSE SummaryRulesLoop(Tail(rules), page, r.acc)

\* for page, page_data in data.items(): ...
RECURSIVE SummaryPagesLoop(_, _)
SummaryPagesLoop(pages, concatenated_terms) ==
    IF pages = <<>> THEN [status |-> "ok", acc |-> concatenated_terms]
    ELSE LET c == CoercePage(pages[1].v)
         IN IF c.skip THEN SummaryPagesLoop(Tail(pages), concatenated_terms)
            ELSE IF c.v.t # "dict"
            THEN [status |-> "AttributeError", acc |-> concatenated_terms]
            ELSE LET r == SummaryRulesLoop(c.v.items, pages[1].k, concatenated_terms)
                 IN IF r.status # "ok" THEN r
                    ELSE SummaryPagesLoop(Tail(pages), r.acc)

\* The value that summary has for each page: one record per term, with the
\* sets as lists.
SummaryOfTerms(concatenated_terms, seed) ==
    PyDict([i \in 1..Len(concatenated_terms) |->
               LET term == concatenated_terms[i].k
                   rules == PyList(ListOfSet(concatenated_terms[i].v.rules, seed))
               IN Item(term,
                       PyDict(<<Item("page#",
                                     PyList(ListOfSet(concatenated_terms[i].v.pages, seed))),
                                Item("rule#", rules),
                                Item("definition", concatenated_terms[i].v.definition),
                                Item("terms", PyDict(<<Item(term, rules)>>))>>))])

\* summary = {page: {...} for page in data.keys()}; data.update(summary)
UpdateWithSummary(data, summary_page) ==
    [i \in 1..Len(data) |-> Item(data[i].k, summary_page)]

\* The function returns nothing; written is the document it dumps.
extract_term_as_key(data, seed) ==
    LET c == SummaryPagesLoop(data, <<>>)
    IN IF c.status # "ok" THEN [status |-> c.status, ret |-> PyNone, written |-> PyNone]
       ELSE [status |-> "ok", ret |-> PyNone,
             written |-> PyDict(UpdateWithSummary(data, SummaryOfTerms(c.acc, seed)))]

\* Rule records as extract_details leaves them, with and without the page#
\* and rule# fields, without terms, and with terms that are not a mapping.
SummaryRuleRecords(rule) ==
    {PyDict(<<Item("definition", PyStr(RawText("a"))), Item("terms", TermsOwnedBy(rule))>>),
     PyDict(<<Item("page#", PyNum(1)), Item("rule#", KeyStr(rule)),
              Item("definition", PyStr(RawText("b"))),
              Item("terms", PyDict(<<Item("cd", KeyStr(rule)), Item("Ab", KeyStr(rule))>>))>>),
     RuleRecord("b"),
     PyDict(<<Item("definition", PyStr(RawText("a"))),
              Item("terms", PyStr(JsonDumps(TermsOwnedBy(rule))))>>)}
SummaryMappingPages ==
    UNION {{PyDict(Zip(ks, vs)) :
               vs \in {f \in [1..Len(ks) -> UNION {SummaryRuleRecords(r) : r \in RuleKeys}] :
                          \A i \in 1..Len(ks) : f[i] \in SummaryRuleRecords(ks[i])}} :
              ks \in {o \in KeyOrders(RuleKeys, MaxRules) :
                         \A i \in 1..(Len(o) - 1) : StrLess(o[i], o[i + 1])}}
SummaryPages ==
    SummaryMappingPages \cup {PyStr(JsonDumps(p)) : p \in SummaryMappingPages}
                        \cup {PyStr(RawText("garbage"))}

InitSummary ==
    /\ store \in {Absent, StaleOutput}
    /\ pre = Absent
    /\ op = "init"
    /\ res = NoResult
    /\ \E ks \in {o \in KeyOrders(TermPageKeys, MaxDocPages) :
                      \A i \in 1..(Len(o) - 1) : StrLess(o[i], o[i + 1])} :
          \E vs \in [1..Len(ks) -> SummaryPages] :
              arg = [fn |-> "extract_term_as_key", doc |-> Zip(ks, vs)]

ExtractTermAsKey ==
    \E seed \in HashSeeds :
        LET r == extract_term_as_key(arg.doc, seed)
        IN /\ arg.fn = "extract_term_as_key"
           /\ op' = "extract_term_as_key"
           /\ res' = r
           /\ pre' = store
           /\ store' = IF r.status = "ok" THEN FileOf(JsonDumps(r.written)) ELSE store
           /\ UNCHANGED arg

NextSummary == ExtractTermAsKey

SpecSummary == InitSummary /\ [][NextSummary]_vars

\* C28: after extract_term_as_key every page key of the input still maps to
\* its rule records, and the term summary is under a key that was not a
\* page key of the input.
SummaryUnderNewKey ==
    (op = "extract_term_as_key" /\ res.status = "ok" /\ arg.doc # <<>>) =>
        LET out == JsonLoads(store.text).v.items
        IN /\ \A i \in 1..Len(arg.doc) :
                 DictHas(out, arg.doc[i].k) /\ DictGet(out, arg.doc[i].k) = arg.doc[i].v
           /\ \E k \in DictKeys(out) : k \notin DictKeys(arg.doc)

(***************************************************************************)
(* extract_terms on documents in which a term is spelled as a rule number. *)
(***************************************************************************)
\* Rule records whose terms are a word, a word and the rule number V.1, or
\* missing.
CollideRuleRecords(rule) ==
    {PyDict(<<Item("definition", PyStr(RawText("a"))), Item("terms", TermsOwnedBy(rule))>>),
     PyDict(<<Item("definition", PyStr(RawText("b"))),
              Item("terms", PyDict(<<Item("V.1", KeyStr(rule)), Item("Ab", KeyStr(rule))>>))>>),
     RuleRecord("b")}
CollidePages ==
    UNION {{PyDict(Zip(ks, vs)) :
               vs \in {f \in [1..Len(ks) -> UNION {CollideRuleRecords(r) : r \in RuleKeys}] :
                          \A i \in 1..Len(ks) : f[i] \in CollideRuleRecords(ks[i])}} :
              ks \in {o \in KeyOrders(RuleKeys, MaxRules) :
                         \A i \in 1..(Len(o) - 1) : StrLess(o[i], o[i + 1])}}

InitCollide ==
    /\ store \in {Absent, StaleOutput}
    /\ pre = Absent
    /\ op = "init"
    /\ res = NoResult
    /\ \E ks \in {o \in KeyOrders(TermPageKeys, MaxDocPages) :
                      \A i \in 1..(Len(o) - 1) : StrLess(o[i], o[i + 1])} :
          \E vs \in [1..Len(ks) -> CollidePages] :
              arg = [fn |-> "extract_terms", doc |-> Zip(ks, vs)]

NextCollide == ExtractTerms

SpecCollide == InitCollide /\ [][NextCollide]_vars

\* The rule numbers of a document, and the fields of the two record shapes.
RuleNumbersOfDoc(doc) == UNION {DictKeys(doc[i].v.items) : i \in 1..Len(doc)}
RuleShape == {"rule_number", "definition", "terms", "measurements"}
TermShape == {"page_number", "rule_number", "definition", "terms", "measurements"}

\* C29: in the combined output of extract_terms every rule number of the
\* input maps to a record of the rule shape and every term maps to a
\* TermRecord, also when a term is spelled as a rule number of the document.
CombinedKeepsRules ==
    (op = "extract_terms" /\ res.status = "ok") =>
        /\ \A k \in RuleNumbersOfDoc(arg.doc) :
              /\ DictHas(res.ret.items, k)
              /\ DictKeys(DictGet(res.ret.items, k).items) = RuleShape
              /\ Field(DictGet(res.ret.items, k), "terms").t = "dict"
        /\ \A t \in TermsOfDoc(arg.doc) :
              /\ DictHas(res.ret.items, t)
              /\ DictKeys(DictGet(res.ret.items, t).items) = TermShape
              /\ Field(DictGet(res.ret.items, t), "rule_number").t = "list"

(***************************************************************************)
(* Two processes in update_json_if_different on the same path.  Each call  *)
(* touches the file four times: the existence test with the creation, the  *)
(* load, the open for writing, which truncates, and the dump.  arg has the *)
(* new_data of each process and res the position and the in-memory         *)
(* document of each.                                                       *)
(***************************************************************************)
Procs == {1, 2}
Other(p) == 3 - p

\* The new_data of the two processes: non-empty, with keys of their own.
RaceKeys(p) == IF p = 1 THEN {"1", "10"} ELSE {"2"}
RaceRecords(p) == {m \in NewRecords : m # <<>> /\ DictKeys(m) \subseteq RaceKeys(p)}

Idle == [pc |-> "start", existing |-> PyNone, status |-> "none"]

InitRace ==
    /\ store \in InitStores
    /\ pre = store
    /\ op = "init"
    /\ \E a \in RaceRecords(1), b \in RaceRecords(2) : arg = <<a, b>>
    /\ res = [procs |-> <<Idle, Idle>>, overlapped |-> FALSE]

\* A step of p while the other process is between its first and its last
\* step makes the two calls overlap.
Overlap(p) == res.overlapped \/ res.procs[Other(p)].pc \notin {"start", "done"}

\* if not os.path.exists(json_file): ... json.dump([], file)
RaceCreate(p) ==
    /\ res.procs[p].pc = "start"
    /\ store' = IF store = Absent THEN CreatedFile ELSE store
    /\ op' = "create"
    /\ res' = [procs |-> [res.procs EXCEPT ![p].pc = "load"], overlapped |-> Overlap(p)]
    /\ UNCHANGED <<pre, arg>>

\* The load and the merge loop, which works on the loaded document alone.
RaceLoad(p) ==
    /\ res.procs[p].pc = "load"
    /\ LET existing == LoadExisting(store)
       IN res' = [procs |->
                     [res.procs EXCEPT ![p] =
                         IF existing.t = "dict"
                         THEN [pc |-> "truncate",
                               existing |-> PyDict(MergeLoop(existing.items, arg[p])),
                               status |-> "none"]
                         \* existing_data[key] = value on a non-dict
                         ELSE [pc |-> "done", existing |-> existing,
                               status |-> "TypeError"]],
                  overlapped |-> Overlap(p)]
    /\ op' = "load"
    /\ UNCHANGED <<store, pre, arg>>

\* open(json_file, "w")
RaceTruncate(p) ==
    /\ res.procs[p].pc = "truncate"
    /\ store' = FileOf(EmptyText)
    /\ op' = "truncate"
    /\ res' = [procs |-> [res.procs EXCEPT ![p].pc = "dump"], overlapped |-> Overlap(p)]
    /\ UNCHANGED <<pre, arg>>

\* json.dump(dict(sorted(existing_data.items())), file): the text goes to
\* the start of the file.  When the other process has written since the
\* truncation, what is left of its text past the end of this one stays, and
\* the file is then not JSON.
RaceDump(p) ==
    /\ res.procs[p].pc = "dump"
    /\ LET mine == FileOf(WrittenText(res.procs[p].existing.items, arg[p]))
       IN store' \in IF store = FileOf(EmptyText) THEN {mine}
                     ELSE {mine, FileOf(RawText("garbage"))}
    /\ op' = "dump"
    /\ res' = [procs |-> [res.procs EXCEPT ![p].pc = "done", ![p].status = "ok"],
               overlapped |-> Overlap(p)]
    /\ UNCHANGED <<pre, arg>>

NextRace ==
    \E p \in Procs : RaceCreate(p) \/ RaceLoad(p) \/ RaceTruncate(p) \/ RaceDump(p)

SpecRace == InitRace /\ [][NextRace]_vars

\* Both calls have returned, and the persisted document has every record
\* of both.
BothReturned == \A p \in Procs : res.procs[p].pc = "done" /\ res.procs[p].status = "ok"
HasRecordsOf(p) ==
    /\ store # Absent
    /\ JsonLoads(store.text).ok
    /\ JsonLoads(store.text).v.t = "dict"
    /\ \A i \in 1..Len(arg[p]) :
          /\ DictHas(JsonLoads(store.text).v.items, arg[p][i].k)
          /\ PyEq(DictGet(JsonLoads(store.text).v.items, arg[p][i].k), arg[p][i].v)

\* C26: two upserts with disjoint key sets that run one after the other, in
\* either order, leave a document with the keys of both; a document that
\* lacks the keys of one of them after both have returned comes from an
\* interleaving of the two.
RaceLostOnlyWhenInterleaved ==
    (op # "init" /\ BothReturned /\ \E p \in Procs : ~HasRecordsOf(p)) =>
        res.overlapped

\* Two calls that ran one after the other and returned.
RaceSequentialRun == op # "init" /\ BothReturned /\ ~res.overlapped

\* The lost update: both calls have returned, they overlapped, and the
\* document has the records of one and not a key of the other.
RaceLostUpdate ==
    /\ op # "init"
    /\ BothReturned
    /\ res.overlapped
    /\ \E p \in Procs :
          /\ HasRecordsOf(p)
          /\ \A i \in 1..Len(arg[Other(p)]) :
                ~DictHas(JsonLoads(store.text).v.items, arg[Other(p)][i].k)

(***************************************************************************)
(* A batch of extract_rules_gpt: the selection, one collaborator call per  *)
(* page of the range, and the write-back.  pre is the output file as the   *)
(* last write-back left it; res has the position of the batch, the pages   *)
(* still to do and the results dict.                                       *)
(***************************************************************************)
\* A loop body that writes the results so far after every page.
FileAfterPageSaved(f, results) == update_json_if_different(f, results).file

\* The output file after one pass of the page loop: the loop body has no
\* statement that opens it.
FileAfterPage(f, results) == f

BatchKeys == {"1", "2", "10", "x"}
BatchDicts == {m \in SelectDicts : DictKeys(m) \subseteq BatchKeys}
BatchRanges == {[start |-> 1, end |-> 2], [start |-> 1, end |-> 10]}
BatchStores ==
    {Absent, FileOf(EmptyText), FileOf(ObjText(<<>>)),
     FileOf(ObjText(<<Item("1", PyStr(RawText("a")))>>)),
     FileOf(ObjText(<<Item("3", PyStr(RawText("b")))>>))}

\* response.output_text, or an exception of the call.
OutputTexts == {PyStr(RawText("a")), PyStr(RawText("b"))}

InitBatch ==
    /\ store \in BatchStores
    /\ pre = store
    /\ op = "init"
    /\ \E dict \in BatchDicts, range \in BatchRanges :
          arg = [dict |-> dict, start |-> range.start, end |-> range.end]
    /\ res = [pc |-> "select", context |-> <<>>, results |-> <<>>, status |-> "none"]

\* context = select_dictionary_range(page_content_dict, start_page, end_page)
BatchSelect ==
    /\ res.pc = "select"
    /\ LET context == select_dictionary_range(arg.dict, arg.start, arg.end)
       IN res' = IF context.status = "ok"
                 THEN [res EXCEPT !.pc = "pages", !.context = context.ret.items]
                 ELSE [res EXCEPT !.pc = "done", !.status = context.status]
    /\ op' = "select"
    /\ UNCHANGED <<store, pre, arg>>

\* One pass of "for page_number, page_content in context.items()" in which
\* the collaborator answers: results[page_number] = response.output_text
BatchPageAnswered ==
    /\ res.pc = "pages"
    /\ res.context # <<>>
    /\ \E text \in OutputTexts :
          LET results == DictSet(res.results, res.context[1].k, text)
          IN /\ res' = [res EXCEPT !.context = Tail(@), !.results = results]
             /\ store' = FileAfterPage(store, results)
    /\ op' = "page"
    /\ UNCHANGED <<pre, arg>>

\* One pass in which the call raises: except Exception as e: print(...)
BatchPageFailed ==
    /\ res.pc = "pages"
    /\ res.context # <<>>
    /\ res' = [res EXCEPT !.context = Tail(@)]
    /\ store' = FileAfterPage(store, res.results)
    /\ op' = "page failed"
    /\ UNCHANGED <<pre, arg>>

\* update_json_if_different(output_json, results) after the loop.
BatchSave ==
    /\ res.pc = "pages"
    /\ res.context = <<>>
    /\ LET r == update_json_if_different(store, res.results)
       IN /\ store' = r.file
          /\ res' = [res EXCEPT !.pc = "done", !.status = r.status]
    /\ op' = "save"
    /\ UNCHANGED <<pre, arg>>

\* The process is stopped (a signal, a crash) before the write-back.
BatchInterrupt ==
    /\ res.pc \in {"select", "pages"}
    /\ res' = [res EXCEPT !.pc = "interrupted"]
    /\ op' = "interrupt"
    /\ UNCHANGED <<store, pre, arg>>

NextBatch ==
    BatchSelect \/ BatchPageAnswered \/ BatchPageFailed \/ BatchSave \/ BatchInterrupt

SpecBatch == InitBatch /\ [][NextBatch]_vars

\* C27: until the write-back at the end of a batch of extract_rules_gpt the
\* output file is as the last write-back left it, whatever number of pages
\* has been processed; a batch interrupted before that write leaves the
\* file so, and none of its results is persisted.
BatchWritesAtEnd ==
    res.pc \in {"select", "pages", "interrupted"} => store = pre

BatchWritesAtEndWitness ==
    /\ res.pc = "interrupted"
    /\ Len(res.results) = 2
    /\ res.context = <<>>
    /\ store = pre
    /\ store # Absent
    /\ \A i \in 1..Len(res.results) :
          ~DictHas(LoadExisting(store).items, res.results[i].k)

====
